---- MODULE Spec2Model ----
(***************************************************************************)
(* Model of the Claude Code sessions manager: the history aggregator       *)
(* (src/data/history.py), the deletion engine (src/data/delete.py), the    *)
(* path resolver (src/utils/paths.py), the detail enricher                 *)
(* (src/data/session.py) and the dashboard loop (src/tui/app.py).          *)
(*                                                                         *)
(* Python strings are sequences of one-character strings, so that          *)
(* substring tests and character replacement are computed, not assumed.    *)
(* A dictionary field of a parsed log line is <<>> when the key is absent  *)
(* (dict.get gives None) and <<v>> when it is present with value v.        *)
(***************************************************************************)
EXTENDS Integers, Sequences, FiniteSets, TLC

VARIABLES
    dir,        \* directory entries of the two log files: name -> inode number, 0 when absent
    inodes,     \* inode number -> the lines the file holds
    lpc,        \* load_sessions call: "idle", "done"
    loaded,     \* what the load_sessions call produced
    hpc,        \* delete_sessions_from_history call: "idle", "read", "writing", "written",
                \* "returned", "exit1" (sys.exit(1)), "raised" (uncaught exception), "crashed"
    session_ids,    \* its argument
    kept_lines,     \* its local list of retained lines
    removed_count,  \* its local counter
    wfd,        \* inode of the temporary file it holds open, 0 when none
    hret,       \* <<n>> once it has returned n, <<>> before
    herr,       \* the I/O operations that failed during the call
    orig,       \* the lines of the event log when the call started
    ncalls,     \* number of calls made so far
    prev,       \* <<S>> when the previous call returned normally with argument S
    rdIno,      \* inode a concurrent reader of the event log holds open, 0 when none
    obs,        \* <<lines>> once the reader has read the log, <<>> before
    fs,         \* the directory tree: location -> what is there (nothing, file, directory, symlink)
    fs0,        \* the tree when delete_session_files was called
    refused,    \* the locations whose removal the system refuses (OSError)
    dpc,        \* delete_session_files call: "idle", "step1", "step2", "search", "loop", "done"
    dargs,      \* its arguments project_path and session_id
    deleted,    \* its list of deleted paths
    artifacts,  \* the sorted matches of find_session_artifacts
    anext,      \* position in artifacts of the next one the loop handles
    state,      \* the dashboard's _State object
    term,       \* the terminal size: max_y rows, max_x columns
    tpc,        \* the dashboard: "start", "render", "getch", "quit", "exec" (handed off to the
                \* resume command), "exit1" (sys.exit(1)), "raised" (uncaught exception)
    workdirs,   \* the project paths that are directories
    key,        \* what the last getch() gave
    confirm_pressed,    \* the last key pressed was a confirm key, pressed in DELETE mode with
                        \* a non-empty selection
    calls,      \* the calls into the data layer made by the last step of the dashboard
    unreadable, \* the event log may not be opened for reading by this user
    cmd,        \* the command being run: "ls", "launch", "delete", "tui", or "none"
    cpc,        \* its position: "idle", "load", "loaded", "matched", "confirmed",
                \* "rewritten", "exit0", "exit1", "exec", "raised"
    carg,       \* its session_id argument
    printed,    \* what it has printed, in order
    subject,    \* the Session the last load_session_detail call was given
    detail      \* how that call ended, and the Session it left

fileVars == <<dir, inodes>>
loadVars == <<lpc, loaded>>
histVars == <<hpc, session_ids, kept_lines, removed_count, wfd, hret, herr, orig, ncalls, prev>>
readerVars == <<rdIno, obs>>
treeVars == <<fs, fs0, refused>>
dsfVars == <<dpc, dargs, deleted, artifacts, anext>>
\* What the specifications of the log leave alone, and what the specification
\* of delete_session_files leaves alone.
tuiVars == <<state, term, tpc, workdirs, key, confirm_pressed, calls>>
cmdVars == <<unreadable, cmd, cpc, carg, printed>>
detailVars == <<subject, detail>>
nonDataVars == <<treeVars, dsfVars, tuiVars, cmdVars, detailVars>>
nonTreeVars == <<fileVars, loadVars, histVars, readerVars, tuiVars, cmdVars, detailVars>>
vars == <<fileVars, loadVars, histVars, readerVars, treeVars, dsfVars, tuiVars, cmdVars,
          detailVars>>

\* ------------------------------------------------------------------ bounds
\* Longest event log of the aggregation and rewrite specifications.
MaxLog == 3
\* Number of successive delete_sessions_from_history calls.
MaxCalls == 2

\* ------------------------------------------------------------- value domains
\* Session ids of the event log.
LogIds == {<<"a">>, <<"b">>, <<"c">>}
\* Timestamps in milliseconds: 600 and 1200 fall in different seconds.
Timestamps == {600, 1200}
Displays == {<<"x">>, <<"y">>}
ProjP == <<"/", "p">>
ProjQ == <<"/", "q">>

\* ---------------------------------------------------------------- log lines
NoEntry == [sessionId |-> <<>>, timestamp |-> <<>>, display |-> <<>>, project |-> <<>>]

\* A line holding a JSON object with the four fields.
Rec(s, t, d, p) ==
    [kind |-> "obj",
     entry |-> [sessionId |-> <<s>>, timestamp |-> <<t>>, display |-> <<d>>, project |-> <<p>>]]

\* A line that is empty after strip().
BlankLine == [kind |-> "blank", entry |-> NoEntry]
\* A line json.loads rejects (JSONDecodeError).
GarbageLine == [kind |-> "garbage", entry |-> NoEntry]
\* A line json.loads accepts as a number, string, array or null.
NonObjectLine == [kind |-> "nonobj", entry |-> NoEntry]
\* A JSON object without sessionId.
NoIdLine ==
    [kind |-> "obj",
     entry |-> [sessionId |-> <<>>, timestamp |-> <<600>>, display |-> <<<<"x">>>>, project |-> <<ProjP>>]]
\* A JSON object naming session "a" and nothing else.
OnlyIdLine ==
    [kind |-> "obj",
     entry |-> [sessionId |-> <<<<"a">>>>, timestamp |-> <<>>, display |-> <<>>, project |-> <<>>]]
\* A complete object whose timestamp is 0.
ZeroTsLine == Rec(<<"b">>, 0, <<"x">>, ProjP)
\* A complete object whose display is the empty string.
EmptyDisplayLine == Rec(<<"b">>, 600, <<>>, ProjP)

CompleteLines ==
    {Rec(s, t, d, ProjP) : s \in LogIds, t \in Timestamps, d \in Displays}
        \cup {Rec(s, t, <<"x">>, ProjQ) : s \in LogIds, t \in Timestamps}

SpecialLines ==
    {BlankLine, GarbageLine, NonObjectLine, NoIdLine, OnlyIdLine, ZeroTsLine, EmptyDisplayLine}

Lines == CompleteLines \cup SpecialLines

\* ------------------------------------------------------------- formatting.py
\* datetime.fromtimestamp(timestamp_ms / 1000): whole seconds and microseconds.
ms_to_datetime(timestamp_ms) ==
    [sec |-> timestamp_ms \div 1000, usec |-> (timestamp_ms % 1000) * 1000]

\* datetime ordering: a < b.
DtLess(a, b) == a.sec < b.sec \/ (a.sec = b.sec /\ a.usec < b.usec)

\* ---------------------------------------------------------------- history.py
\* Truth value of entry.get(k) for a string-valued key: None and "" are false.
TruthyStr(f) == f # <<>> /\ f[1] # <<>>
\* Truth value of entry.get(k) for an integer-valued key: None and 0 are false.
TruthyInt(f) == f # <<>> /\ f[1] # 0

\* all((session_id, timestamp, display, project))
AllFields(e) ==
    /\ TruthyStr(e.sessionId)
    /\ TruthyInt(e.timestamp)
    /\ TruthyStr(e.display)
    /\ TruthyStr(e.project)

\* Position of key sid in the insertion-ordered dictionary d, 0 when absent.
DictIndex(d, sid) ==
    IF \E i \in 1..Len(d) : d[i].key = sid
    THEN CHOOSE i \in 1..Len(d) : d[i].key = sid
    ELSE 0

\* entries.setdefault(session_id, []).append(entry)
SetDefaultAppend(d, sid, e) ==
    LET i == DictIndex(d, sid) IN
    IF i = 0
    THEN Append(d, [key |-> sid, group |-> <<e>>])
    ELSE [d EXCEPT ![i].group = Append(@, e)]

\* The reading loop over the lines from position i, with the dictionary built so
\* far: a non-object JSON value has no get() and raises AttributeError.
RECURSIVE ReadEntries(_, _, _)
ReadEntries(lines, i, d) ==
    IF i > Len(lines) THEN [outcome |-> "ok", entries |-> d]
    ELSE LET line == lines[i] IN
         CASE line.kind = "blank" -> ReadEntries(lines, i + 1, d)
           [] line.kind = "garbage" -> ReadEntries(lines, i + 1, d)
           [] line.kind = "nonobj" -> [outcome |-> "raised", entries |-> d]
           [] OTHER ->
                IF ~AllFields(line.entry)
                THEN ReadEntries(lines, i + 1, d)
                ELSE ReadEntries(lines, i + 1,
                                 SetDefaultAppend(d, line.entry.sessionId[1], line.entry))

\* The group left in log order: the sort forgotten.
InsertUnsorted(sorted, e) == Append(sorted, e)

\* One step of the stable ascending sort: e goes after every element whose
\* timestamp is not greater than its own.
InsertByTimestamp(sorted, e) ==
    LET n == Cardinality({i \in 1..Len(sorted) : sorted[i].timestamp[1] <= e.timestamp[1]})
    IN SubSeq(sorted, 1, n) \o <<e>> \o SubSeq(sorted, n + 1, Len(sorted))

\* group.sort(key=lambda e: e["timestamp"])
RECURSIVE SortGroup(_)
SortGroup(group) ==
    IF group = <<>> THEN <<>>
    ELSE InsertByTimestamp(SortGroup(SubSeq(group, 1, Len(group) - 1)), group[Len(group)])

RECURSIVE SeqMin(_)
SeqMin(s) ==
    IF Len(s) = 1 THEN s[1]
    ELSE LET m == SeqMin(Tail(s)) IN IF s[1] <= m THEN s[1] ELSE m

RECURSIVE SeqMax(_)
SeqMax(s) ==
    IF Len(s) = 1 THEN s[1]
    ELSE LET m == SeqMax(Tail(s)) IN IF s[1] >= m THEN s[1] ELSE m

\* Session(...) built from one dictionary item.
MakeSession(sid, rawGroup) ==
    LET group == SortGroup(rawGroup)
        timestamps == [i \in 1..Len(group) |-> group[i].timestamp[1]]
    IN [session_id |-> sid,
        project_path |-> group[1].project[1],
        created_at |-> ms_to_datetime(SeqMin(timestamps)),
        last_active_at |-> ms_to_datetime(SeqMax(timestamps)),
        latest_command |-> group[Len(group)].display[1],
        commands |-> [i \in 1..Len(group) |-> group[i].display[1]],
        todos |-> <<>>]

\* The sort without reverse=True: ascending.
InsertAscending(sorted, s) ==
    LET n == Cardinality({i \in 1..Len(sorted) : ~DtLess(s.last_active_at, sorted[i].last_active_at)})
    IN SubSeq(sorted, 1, n) \o <<s>> \o SubSeq(sorted, n + 1, Len(sorted))

\* One step of the stable descending sort: s goes after every element whose
\* last_active_at is not less than its own (reverse=True keeps equal elements
\* in their original order).
InsertByLastActive(sorted, s) ==
    LET n == Cardinality({i \in 1..Len(sorted) : ~DtLess(sorted[i].last_active_at, s.last_active_at)})
    IN SubSeq(sorted, 1, n) \o <<s>> \o SubSeq(sorted, n + 1, Len(sorted))

\* sessions.sort(key=lambda s: s.last_active_at, reverse=True)
RECURSIVE SortSessions(_)
SortSessions(sessions) ==
    IF sessions = <<>> THEN <<>>
    ELSE InsertByLastActive(SortSessions(SubSeq(sessions, 1, Len(sessions) - 1)),
                            sessions[Len(sessions)])

\* load_sessions on a readable log holding these lines.
load_sessions(lines) ==
    LET r == ReadEntries(lines, 1, <<>>) IN
    IF r.outcome # "ok" THEN [outcome |-> r.outcome, sessions |-> <<>>]
    ELSE [outcome |-> "ok",
          sessions |-> SortSessions([i \in 1..Len(r.entries) |->
                                       MakeSession(r.entries[i].key, r.entries[i].group)])]

\* ------------------------------------------------------------------ paths.py
\* project_path.replace("/", "-")
project_path_to_slug(project_path) ==
    [i \in 1..Len(project_path) |-> IF project_path[i] = "/" THEN "-" ELSE project_path[i]]

\* get_claude_dir(): the data root, and a directory that is not under it.
Root == << <<"R">> >>
Outside == << <<"O">> >>

\* f"{session_id}.jsonl": the extension is one token, no session id holds it.
JsonlName(session_id) == Append(session_id, ".jsonl")
HistoryName == <<"history", ".jsonl">>

\* path / name: pathlib drops a component that is empty or ".".
JoinPath(path, name) == IF name \in {<<>>, <<".">>} THEN path ELSE Append(path, name)

\* get_session_jsonl_path(project_path, session_id)
get_session_jsonl_path(project_path, session_id) ==
    Append(JoinPath(Root \o << <<"projects">> >>, project_path_to_slug(project_path)),
           JsonlName(session_id))

\* ------------------------------------------------------------ the directory tree
\* A location is the sequence of names from the top; a path names a location
\* once the symlinks on it are followed.
Nothing == [k |-> "none", to |-> <<>>, data |-> <<>>]
FileOf(data) == [k |-> "file", to |-> <<>>, data |-> data]
Directory == [k |-> "dir", to |-> <<>>, data |-> <<>>]
LinkTo(loc) == [k |-> "link", to |-> loc, data |-> <<>>]

ProjectsDir == Root \o << <<"projects">> >>
SlugDirP == ProjectsDir \o << <<"-", "p">> >>
SlugDirQ == ProjectsDir \o << <<"-", "q">> >>
TodosDir == Root \o << <<"todos">> >>

\* The locations of the model: the log, the project directories with the
\* detail files and directories of sessions "a", "ab" and "b", a stray
\* artifact of "a", and a directory outside the root.
Locs ==
    {Root, Root \o <<HistoryName>>, ProjectsDir, SlugDirP, SlugDirQ, TodosDir,
     SlugDirP \o << <<"a", ".jsonl">> >>, SlugDirP \o << <<"a">> >>,
     SlugDirP \o << <<"a">>, <<"x">> >>,
     SlugDirP \o << <<"a", "b", ".jsonl">> >>, SlugDirP \o << <<"a", "b">> >>,
     SlugDirP \o << <<"b", ".jsonl">> >>, SlugDirP \o << <<"b">> >>,
     SlugDirQ \o << <<"b", ".jsonl">> >>,
     TodosDir \o << <<"a", "-", "x">> >>,
     Outside, Outside \o << <<"a", ".jsonl">> >>, Outside \o << <<"a">> >>,
     Outside \o << <<"a">>, <<"x">> >>, Outside \o << <<"n", "a">> >>}

Front(s) == SubSeq(s, 1, Len(s) - 1)
Last(s) == s[Len(s)]
IsPrefix(p, s) == Len(p) <= Len(s) /\ SubSeq(s, 1, Len(p)) = p

\* What tree t holds at location loc.
At(t, loc) == IF loc \in Locs THEN t[loc] ELSE Nothing

\* Path.resolve(): the location a path names, every symlink followed; a
\* symlink of the model points to a location that is not a symlink.
RECURSIVE Resolve(_, _)
Resolve(t, path) ==
    IF path = <<>> THEN <<>>
    ELSE LET loc == Append(Resolve(t, Front(path)), Last(path)) IN
         IF At(t, loc).k = "link" THEN At(t, loc).to ELSE loc

\* The location of the directory entry a path names: the symlinks of the
\* parent followed, the last name not.
EntryOf(t, path) == Append(Resolve(t, Front(path)), Last(path))

\* Path.exists(), Path.is_dir(), os.path.islink()
Exists(t, path) == At(t, Resolve(t, path)).k # "none"
IsDir(t, path) == At(t, Resolve(t, path)).k = "dir"
IsLink(t, path) == At(t, EntryOf(t, path)).k = "link"

\* Path.unlink() succeeds on a file or a symlink whose removal is not refused.
CanUnlink(t, rf, path) ==
    /\ At(t, EntryOf(t, path)).k \in {"file", "link"}
    /\ EntryOf(t, path) \notin rf

\* The tree after Path.unlink(): the entry is gone, a symlink's target stays.
Unlinked(t, path) == [t EXCEPT ![EntryOf(t, path)] = Nothing]

\* shutil.rmtree() refuses a symlink and anything that is not a directory, and
\* fails when the removal of the directory or of something under it is refused
\* (what it removed before failing is left out: the tree is taken as it was).
CanRmtree(t, rf, path) ==
    /\ ~IsLink(t, path)
    /\ At(t, EntryOf(t, path)).k = "dir"
    /\ \A loc \in rf : ~(IsPrefix(EntryOf(t, path), loc) /\ At(t, loc).k # "none")

\* The tree after shutil.rmtree(): the directory and all that is under it are
\* gone; a symlink under it is removed, not followed.
Rmtreed(t, path) ==
    [loc \in Locs |-> IF IsPrefix(EntryOf(t, path), loc) THEN Nothing ELSE t[loc]]

\* ------------------------------------------- delete.py: the artifact removal
\* session_id in name
Contains(name, session_id) ==
    \E i \in 0..(Len(name) - Len(session_id)) :
        SubSeq(name, i + 1, i + Len(session_id)) = session_id

\* The order of the characters that make the names, as Python compares strings.
TokenOrder ==
    <<"-", ".jsonl", "O", "R", "a", "b", "history", "n", "p", "projects", "q", "todos", "x">>
TokenRank(c) == CHOOSE i \in 1..Len(TokenOrder) : TokenOrder[i] = c

\* a < b for two names, and for two paths: the order matches.sort() uses.
NameLess(a, b) ==
    \E i \in 1..Len(b) :
        /\ Len(a) >= i - 1
        /\ SubSeq(a, 1, i - 1) = SubSeq(b, 1, i - 1)
        /\ Len(a) = i - 1 \/ TokenRank(a[i]) < TokenRank(b[i])
PathLess(p, q) ==
    \E i \in 1..Len(q) :
        /\ Len(p) >= i - 1
        /\ SubSeq(p, 1, i - 1) = SubSeq(q, 1, i - 1)
        /\ Len(p) = i - 1 \/ NameLess(p[i], q[i])

RECURSIVE SortPaths(_)
SortPaths(S) ==
    IF S = {} THEN <<>>
    ELSE LET m == CHOOSE x \in S : \A y \in S \ {x} : PathLess(x, y)
         IN <<m>> \o SortPaths(S \ {m})

\* What os.walk(root) lists: every entry under the root that is reached through
\* directories that are not symlinks.
Walked(t) ==
    {loc \in Locs :
        /\ IsPrefix(Root, loc)
        /\ loc # Root
        /\ t[loc].k # "none"
        /\ \A n \in Len(Root)..(Len(loc) - 1) : t[SubSeq(loc, 1, n)].k = "dir"}

\* find_session_artifacts(session_id): os.walk puts an entry in dirnames when it
\* is a directory or a symlink to one, in filenames otherwise.
find_session_artifacts(t, session_id) ==
    SortPaths({loc \in Walked(t) :
                  /\ Contains(Last(loc), session_id)
                  /\ IsDir(t, loc) \/ Last(loc) # HistoryName})

\* jsonl_path.with_suffix("")
WithoutSuffix(path) == Append(Front(path), Front(Last(path)))

\* Step 1 with deleted.append(jsonl_path) after the try statement.
DeletePrimaryListingFailure(st, jsonl_path, rf) ==
    IF ~Exists(st.fs, jsonl_path) THEN st
    ELSE IF CanUnlink(st.fs, rf, jsonl_path)
         THEN [fs |-> Unlinked(st.fs, jsonl_path), deleted |-> Append(st.deleted, jsonl_path)]
         ELSE [st EXCEPT !.deleted = Append(@, jsonl_path)]

\* Step 1 on st = [fs, deleted]: the primary .jsonl file.
DeletePrimary(st, jsonl_path, rf) ==
    IF Exists(st.fs, jsonl_path) /\ CanUnlink(st.fs, rf, jsonl_path)
    THEN [fs |-> Unlinked(st.fs, jsonl_path), deleted |-> Append(st.deleted, jsonl_path)]
    ELSE st

\* Step 2: the per-session directory.
DeleteSessionDir(st, session_dir, rf) ==
    IF IsDir(st.fs, session_dir) /\ CanRmtree(st.fs, rf, session_dir)
    THEN [fs |-> Rmtreed(st.fs, session_dir), deleted |-> Append(st.deleted, session_dir)]
    ELSE st

\* artifact.resolve().relative_to(root.resolve()) raises no ValueError.
UnderRoot(t, artifact) == IsPrefix(Resolve(t, Root), Resolve(t, artifact))

\* The containment check left out.
DeleteArtifactUnchecked(st, artifact, rf) ==
    IF \E i \in 1..Len(st.deleted) : st.deleted[i] = artifact THEN st
    ELSE IF IsDir(st.fs, artifact)
         THEN IF CanRmtree(st.fs, rf, artifact)
              THEN [fs |-> Rmtreed(st.fs, artifact), deleted |-> Append(st.deleted, artifact)]
              ELSE st
         ELSE IF CanUnlink(st.fs, rf, artifact)
              THEN [fs |-> Unlinked(st.fs, artifact), deleted |-> Append(st.deleted, artifact)]
              ELSE st

\* Step 3, one turn of the loop over the artifacts.
DeleteArtifact(st, artifact, rf) ==
    IF \E i \in 1..Len(st.deleted) : st.deleted[i] = artifact THEN st
    ELSE IF ~UnderRoot(st.fs, artifact) THEN st
    ELSE IF IsDir(st.fs, artifact)
         THEN IF CanRmtree(st.fs, rf, artifact)
              THEN [fs |-> Rmtreed(st.fs, artifact), deleted |-> Append(st.deleted, artifact)]
              ELSE st
         ELSE IF CanUnlink(st.fs, rf, artifact)
              THEN [fs |-> Unlinked(st.fs, artifact), deleted |-> Append(st.deleted, artifact)]
              ELSE st

\* The element of a set of one. The statements of a function that follow one
\* another are written The({rest(x) : x \in {first}}): first is computed, then
\* rest works on its value.
The(S) == CHOOSE r \in S : TRUE

RECURSIVE DeleteArtifacts(_, _, _, _)
DeleteArtifacts(st, arts, i, rf) ==
    IF i > Len(arts) THEN st
    ELSE The({DeleteArtifacts(st1, arts, i + 1, rf) :
                 st1 \in {DeleteArtifact(st, arts[i], rf)}})

\* Step 3: the search, then the loop over what it found.
DeleteFound(st, session_id, rf) ==
    The({DeleteArtifacts(st, arts, 1, rf) :
            arts \in {find_session_artifacts(st.fs, session_id)}})

\* list(project_dir.glob("*.jsonl"))
RemainingJsonl(t, project_dir) ==
    {loc \in Locs :
        /\ Len(loc) > 0
        /\ Front(loc) = Resolve(t, project_dir)
        /\ t[loc].k # "none"
        /\ Last(Last(loc)) = ".jsonl"}

\* Step 4: the project directory, when no .jsonl file remains in it.
DeleteProjectDir(st, project_dir, rf) ==
    IF /\ IsDir(st.fs, project_dir)
       /\ RemainingJsonl(st.fs, project_dir) = {}
       /\ CanRmtree(st.fs, rf, project_dir)
    THEN [fs |-> Rmtreed(st.fs, project_dir), deleted |-> Append(st.deleted, project_dir)]
    ELSE st

\* project_dir = root / "projects" / slug
ProjectDirOf(project_path) == JoinPath(ProjectsDir, project_path_to_slug(project_path))

\* The whole of delete_session_files(project_path, session_id) on tree t: the
\* tree afterwards and the list returned.
delete_session_files(t, project_path, session_id, rf) ==
    LET jsonl_path == get_session_jsonl_path(project_path, session_id)
        Step1 == {DeletePrimary([fs |-> t, deleted |-> <<>>], jsonl_path, rf)}
        Step2 == {DeleteSessionDir(s1, WithoutSuffix(jsonl_path), rf) : s1 \in Step1}
        Step3 == {DeleteFound(s2, session_id, rf) : s2 \in Step2}
    IN The({DeleteProjectDir(s3, ProjectDirOf(project_path), rf) : s3 \in Step3})

\* ----------------------------------------------- delete.py: the log rewrite
\* entry.get("sessionId") in session_ids
IdentifiesDeleted(line, S) ==
    line.entry.sessionId # <<>> /\ line.entry.sessionId[1] \in S

\* The reading loop of delete_sessions_from_history from position i: blank and
\* unparseable lines are kept, a non-object JSON value has no get() and raises
\* AttributeError.
RECURSIVE ReadKept(_, _, _, _, _)
ReadKept(lines, i, S, kept, removed) ==
    IF i > Len(lines)
    THEN [outcome |-> "ok", kept_lines |-> kept, removed_count |-> removed]
    ELSE LET line == lines[i] IN
         CASE line.kind = "blank" -> ReadKept(lines, i + 1, S, Append(kept, line), removed)
           [] line.kind = "garbage" -> ReadKept(lines, i + 1, S, Append(kept, line), removed)
           [] line.kind = "nonobj" ->
                [outcome |-> "raised", kept_lines |-> kept, removed_count |-> removed]
           [] OTHER ->
                IF IdentifiesDeleted(line, S)
                THEN ReadKept(lines, i + 1, S, kept, removed + 1)
                ELSE ReadKept(lines, i + 1, S, Append(kept, line), removed)

\* The temporary file written in place of the log itself.
tmp_path_in_place == "hist"

\* tmp_path = history_path.with_suffix(".jsonl.tmp"): the directory entry written to.
tmp_path == "tmp"

\* open(tmp_path, "w") on directory d and inodes ins: the file is created, or
\* the existing one truncated. Gives the new directory, inodes and descriptor.
OpenForWrite(d, ins, name) ==
    IF d[name] = 0
    THEN [dir |-> [d EXCEPT ![name] = Len(ins) + 1],
          inodes |-> Append(ins, <<>>),
          fd |-> Len(ins) + 1]
    ELSE [dir |-> d, inodes |-> [ins EXCEPT ![d[name]] = <<>>], fd |-> d[name]]

\* tmp_path.rename(history_path): the entry of the log now names the
\* temporary file's inode, and the temporary name is gone.
Rename(d, from, to) ==
    IF from = to THEN d ELSE [d EXCEPT ![to] = d[from], ![from] = 0]

\* tmp_path.unlink(missing_ok=True)
Unlink(d, name) == [d EXCEPT ![name] = 0]

\* The I/O faults a call of delete_sessions_from_history may meet when it has
\* kept these lines: none, or one of open, write (after n lines reached the
\* file) and rename, with the clean-up unlink succeeding or not.
NoFault == [op |-> "none", n |-> 0, unlinked |-> TRUE]

Faults(kept) ==
    {NoFault}
        \cup {[op |-> o, n |-> 0, unlinked |-> u] : o \in {"open", "rename"}, u \in BOOLEAN}
        \cup {[op |-> "write", n |-> k, unlinked |-> u] : k \in 0..Len(kept), u \in BOOLEAN}

\* The whole of delete_sessions_from_history(S) on directory d and inodes ins,
\* meeting fault: the outcome, the files afterwards, the value returned and the
\* operations that failed.
delete_sessions_from_history(d, ins, S, fault) ==
    LET r == ReadKept(ins[d.hist], 1, S, <<>>, 0)
        o == OpenForWrite(d, ins, tmp_path)
        cleaned(dd) == IF fault.unlinked THEN Unlink(dd, tmp_path) ELSE dd
        failed == {fault.op} \cup (IF fault.unlinked THEN {} ELSE {"unlink"})
    IN IF r.outcome # "ok"
       THEN [outcome |-> "raised", dir |-> d, inodes |-> ins, ret |-> <<>>, err |-> {},
             kept_lines |-> r.kept_lines, removed_count |-> r.removed_count]
       ELSE CASE fault.op = "open" ->
                   [outcome |-> "exit1", dir |-> cleaned(d), inodes |-> ins, ret |-> <<>>,
                    err |-> failed,
                    kept_lines |-> r.kept_lines, removed_count |-> r.removed_count]
              [] fault.op = "write" ->
                   [outcome |-> "exit1", dir |-> cleaned(o.dir),
                    inodes |-> [o.inodes EXCEPT ![o.fd] = SubSeq(r.kept_lines, 1, fault.n)],
                    ret |-> <<>>, err |-> failed,
                    kept_lines |-> r.kept_lines, removed_count |-> r.removed_count]
              [] fault.op = "rename" ->
                   [outcome |-> "exit1", dir |-> cleaned(o.dir),
                    inodes |-> [o.inodes EXCEPT ![o.fd] = r.kept_lines],
                    ret |-> <<>>, err |-> failed,
                    kept_lines |-> r.kept_lines, removed_count |-> r.removed_count]
              [] OTHER ->
                   [outcome |-> "returned", dir |-> Rename(o.dir, tmp_path, "hist"),
                    inodes |-> [o.inodes EXCEPT ![o.fd] = r.kept_lines],
                    ret |-> <<r.removed_count>>, err |-> {},
                    kept_lines |-> r.kept_lines, removed_count |-> r.removed_count]

\* ------------------------------------------------- session.py: the enricher
\* The lines of a detail file: blank, unparseable, a JSON value that is not an
\* object, or an object whose "todos" is absent (<<>>) or a list of items
\* (<<items>>); an item is a string, an object with a "content", or a value of
\* another type.
DetailLine(items) == [kind |-> "obj", todos |-> <<items>>]
NoTodosLine == [kind |-> "obj", todos |-> <<>>]
BlankDetail == [kind |-> "blank", todos |-> <<>>]
GarbageDetail == [kind |-> "garbage", todos |-> <<>>]
NonObjectDetail == [kind |-> "nonobj", todos |-> <<>>]
StrItem(s) == [k |-> "str", content |-> s]
OtherItem == [k |-> "other", content |-> ""]
DictItem(s) == [k |-> "dict", content |-> s]

\* An object item whose "content" is a non-empty list, which no set can hold.
UnhashableTodo == "['x']"
ListItem == [k |-> "dict", content |-> UnhashableTodo]

\* The todos the reading loop collects from line i on; "raised" when
\* entry.get meets a value that is not an object.
RECURSIVE ReadTodos(_, _, _)
ReadTodos(lines, i, todos) ==
    IF i > Len(lines) THEN [outcome |-> "ok", todos |-> todos]
    ELSE LET line == lines[i] IN
         CASE line.kind \in {"blank", "garbage"} -> ReadTodos(lines, i + 1, todos)
           [] line.kind = "nonobj" -> [outcome |-> "raised", todos |-> todos]
           [] line.todos = <<>> \/ line.todos = << <<>> >> -> ReadTodos(lines, i + 1, todos)
           [] OTHER ->
                LET items == SelectSeq(line.todos[1], LAMBDA item : item.k \in {"str", "dict"})
                IN ReadTodos(lines, i + 1, todos \o [j \in 1..Len(items) |-> items[j].content])

\* The todos left as they were collected.
NotDeduplicated(todos) == todos

\* Deduplicate while preserving order.
RECURSIVE Unique(_)
Unique(todos) ==
    IF todos = <<>> THEN <<>>
    ELSE LET front == Unique(SubSeq(todos, 1, Len(todos) - 1))
             todo == todos[Len(todos)]
         IN IF \E j \in 1..Len(front) : front[j] = todo THEN front ELSE Append(front, todo)

\* "todo not in seen" raises TypeError on a todo that cannot be hashed.
Hashable(todos) == \A j \in 1..Len(todos) : todos[j] # UnhashableTodo

\* No load_session_detail call made yet.
NotEnriched == [outcome |-> "none", session |-> <<>>]

\* load_session_detail(session) on tree t: the outcome and the Session.
load_session_detail(t, session) ==
    LET path == get_session_jsonl_path(session.project_path, session.session_id)
        entry == At(t, Resolve(t, path))
    IN IF entry.k # "file" THEN [outcome |-> "ok", session |-> session]
       ELSE LET r == ReadTodos(entry.data, 1, <<>>) IN
            IF r.outcome # "ok" \/ ~Hashable(r.todos)
            THEN [outcome |-> "raised", session |-> session]
            ELSE [outcome |-> "ok", session |-> [session EXCEPT !.todos = Unique(r.todos)]]

\* ----------------------------------------------------- app.py: the dashboard
MODE_SELECT == "SELECT"
MODE_DELETE == "DELETE"
_BANNER_HEIGHT == 5

\* state.message: None, or one of the four texts the handlers set.
NoMessage == [text |-> "None", n |-> 0, path |-> <<>>]
NoSessionsSelected == [text |-> "No sessions selected.", n |-> 0, path |-> <<>>]
DeletePrompt(n) == [text |-> "Delete {n} session(s)? [y/N]", n |-> n, path |-> <<>>]
DeletedMessage(n) == [text |-> "Deleted {n} session(s).", n |-> n, path |-> <<>>]
NoLongerExists(path) ==
    [text |-> "Error: Directory '{path}' no longer exists.", n |-> 0, path |-> path]

\* _State(sessions); _enriched_id is <<>> for None and <<id>> for an id.
_State(sessions) ==
    [sessions |-> sessions, mode |-> MODE_SELECT, cursor |-> 0, scroll_offset |-> 0,
     selected |-> {}, message |-> NoMessage, confirming |-> FALSE, _enriched_id |-> <<>>]

\* The keys getch() may give: the ones the handlers name, and another one.
UpKeys == {"KEY_UP", "k"}
DownKeys == {"KEY_DOWN", "j"}
DeleteModeKeys == {"D", "d"}
SelectModeKeys == {"S", "s"}
QuitKeys == {"Q", "q"}
EnterKeys == {"KEY_ENTER", "\n", "\r"}
ToggleKeys == {"\t"}
YesKeys == {"y", "Y"}
Keys ==
    UpKeys \cup DownKeys \cup DeleteModeKeys \cup SelectModeKeys \cup QuitKeys
        \cup EnterKeys \cup ToggleKeys \cup YesKeys \cup {"x"}

\* state.sessions[i] of Python, i counted from 0.
SessionAt(st, i) == st.sessions[i + 1]

Max(a, b) == IF a >= b THEN a ELSE b

\* The offset set to the cursor whenever the cursor is outside the window.
EnsureCursorFirstRow(st, pane_height) ==
    IF st.cursor < st.scroll_offset \/ st.cursor >= st.scroll_offset + pane_height - 1
    THEN [st EXCEPT !.scroll_offset = st.cursor]
    ELSE st

\* _ensure_cursor_visible(state, pane_height)
_ensure_cursor_visible(st, pane_height) ==
    LET data_height == pane_height - 1 IN
    IF st.cursor < st.scroll_offset THEN [st EXCEPT !.scroll_offset = st.cursor]
    ELSE IF st.cursor >= st.scroll_offset + data_height
         THEN [st EXCEPT !.scroll_offset = st.cursor - data_height + 1]
         ELSE st

\* A call into the data layer, as the dashboard makes it.
Call(op, ids, project_path) == [op |-> op, ids |-> ids, project_path |-> project_path]

\* The test of the last-enriched id left out.
AlwaysEnrich(st, session) == TRUE

\* state._enriched_id != current_session.session_id
NeedsEnrichment(st, session) == st._enriched_id # <<session.session_id>>

\* _render(stdscr, state) on a terminal of this size, over tree t: the state
\* afterwards, what is drawn, and the calls made; "raised" when an exception
\* leaves it.
_render(st, size, t) ==
    IF size.max_y < 3 \/ size.max_x < 20
    THEN [outcome |-> "ok", state |-> st, drawn |-> "Terminal too small", calls |-> <<>>]
    ELSE LET show_banner == size.max_y > _BANNER_HEIGHT + 5
             banner_h == IF show_banner THEN _BANNER_HEIGHT ELSE 0
             pane_height == size.max_y - 1 - banner_h
         IN IF st.sessions = <<>>
            THEN [outcome |-> "ok", state |-> st, drawn |-> "No Claude Code sessions found.",
                  calls |-> <<>>]
            ELSE LET st1 == _ensure_cursor_visible(st, pane_height) IN
                 IF st1.cursor >= Len(st1.sessions)
                 THEN [outcome |-> "raised", state |-> st1, drawn |-> "", calls |-> <<>>]
                 ELSE LET current_session == SessionAt(st1, st1.cursor) IN
                      IF NeedsEnrichment(st1, current_session)
                      THEN LET r == load_session_detail(t, current_session)
                               made == <<Call("load_session_detail",
                                              {current_session.session_id},
                                              current_session.project_path)>>
                           IN IF r.outcome # "ok"
                              THEN [outcome |-> "raised", state |-> st1, drawn |-> "",
                                    calls |-> made]
                              ELSE [outcome |-> "ok",
                                    state |-> [st1 EXCEPT
                                                 !.sessions[st1.cursor + 1] = r.session,
                                                 !._enriched_id = <<current_session.session_id>>],
                                    drawn |-> "panes", calls |-> made]
                      ELSE [outcome |-> "ok", state |-> st1, drawn |-> "panes", calls |-> <<>>]

\* The down key going round to the first row.
CursorDownWrapping(st) == [st EXCEPT !.cursor = (st.cursor + 1) % Len(st.sessions)]

\* The cursor keys, the same in both modes.
CursorUp(st) == IF st.cursor > 0 THEN [st EXCEPT !.cursor = st.cursor - 1] ELSE st
CursorDown(st) ==
    IF st.cursor < Len(st.sessions) - 1 THEN [st EXCEPT !.cursor = st.cursor + 1] ELSE st

\* _handle_select_key(key, state, stdscr): the state and the value returned.
_handle_select_key(k, st) ==
    CASE k \in UpKeys -> [state |-> CursorUp(st), action |-> "None"]
      [] k \in DownKeys -> [state |-> CursorDown(st), action |-> "None"]
      [] k \in DeleteModeKeys ->
            [state |-> [st EXCEPT !.mode = MODE_DELETE, !.message = NoMessage],
             action |-> "None"]
      [] k \in QuitKeys -> [state |-> st, action |-> "quit"]
      [] k \in EnterKeys -> [state |-> st, action |-> "launch"]
      [] OTHER -> [state |-> st, action |-> "None"]

\* The toggle key that only adds.
ToggleAddOnly(st) ==
    [st EXCEPT !.selected = st.selected \cup {SessionAt(st, st.cursor).session_id}]

\* The toggle key: the id of the session under the cursor joins or leaves the
\* selection.
Toggle(st) ==
    LET sid == SessionAt(st, st.cursor).session_id IN
    IF sid \in st.selected THEN [st EXCEPT !.selected = st.selected \ {sid}]
    ELSE [st EXCEPT !.selected = st.selected \cup {sid}]

\* The empty-selection test of the confirm key left out.
ConfirmAlways(st) ==
    [st EXCEPT !.confirming = TRUE, !.message = DeletePrompt(Cardinality(st.selected))]

\* The prompt stating the length of the list.
ConfirmCountingSessions(st) ==
    IF st.selected = {} THEN [st EXCEPT !.message = NoSessionsSelected]
    ELSE [st EXCEPT !.confirming = TRUE, !.message = DeletePrompt(Len(st.sessions))]

\* The confirm key in DELETE mode.
Confirm(st) ==
    IF st.selected = {} THEN [st EXCEPT !.message = NoSessionsSelected]
    ELSE [st EXCEPT !.confirming = TRUE, !.message = DeletePrompt(Cardinality(st.selected))]

\* The select-mode key leaving the selection as it is.
ToSelectKeepingSelection(st) == [st EXCEPT !.mode = MODE_SELECT, !.message = NoMessage]

\* The select-mode key in DELETE mode.
ToSelect(st) == [st EXCEPT !.mode = MODE_SELECT, !.selected = {}, !.message = NoMessage]

\* _handle_delete_key(key, state, stdscr): the state and the value returned.
_handle_delete_key(k, st) ==
    CASE k \in UpKeys -> [state |-> CursorUp(st), action |-> "None"]
      [] k \in DownKeys -> [state |-> CursorDown(st), action |-> "None"]
      [] k \in ToggleKeys -> [state |-> Toggle(st), action |-> "None"]
      [] k \in SelectModeKeys -> [state |-> ToSelect(st), action |-> "None"]
      [] k \in QuitKeys -> [state |-> st, action |-> "quit"]
      [] k \in EnterKeys -> [state |-> Confirm(st), action |-> "None"]
      [] OTHER -> [state |-> st, action |-> "None"]

\* _do_launch without the is_dir() test.
LaunchUnchecked(st, wd) ==
    [state |-> st, execd |-> TRUE,
     calls |-> <<Call("execvp", {SessionAt(st, st.cursor).session_id},
                      SessionAt(st, st.cursor).project_path)>>]

\* _do_launch(state, stdscr) when wd are the project paths that are
\* directories: the state, and whether the resume command replaced the process.
_do_launch(st, wd) ==
    LET session == SessionAt(st, st.cursor) IN
    IF session.project_path \notin wd
    THEN [state |-> [st EXCEPT !.message = NoLongerExists(session.project_path)],
          execd |-> FALSE, calls |-> <<>>]
    ELSE [state |-> st, execd |-> TRUE,
          calls |-> <<Call("execvp", {session.session_id}, session.project_path)>>]

\* for session in state.sessions: if session.session_id in state.selected:
\*     delete_session_files(session.project_path, session.session_id)
RECURSIVE DeleteSelectedFiles(_, _, _, _, _)
DeleteSelectedFiles(sessions, i, selected, t, rf) ==
    IF i > Len(sessions) THEN [fs |-> t, calls |-> <<>>]
    ELSE LET session == sessions[i] IN
         IF session.session_id \in selected
         THEN The({[fs |-> rest.fs,
                    calls |-> <<Call("delete_session_files", {session.session_id},
                                     session.project_path)>> \o rest.calls] :
                      rest \in {DeleteSelectedFiles(sessions, i + 1, selected, r.fs, rf) :
                                  r \in {delete_session_files(t, session.project_path,
                                                              session.session_id, rf)}}})
         ELSE DeleteSelectedFiles(sessions, i + 1, selected, t, rf)

\* The cursor left where it is.
CursorNotFixed(st) == st

\* Fix cursor position
FixCursor(st) ==
    IF st.cursor >= Len(st.sessions)
    THEN [st EXCEPT !.cursor = Max(0, Len(st.sessions) - 1)]
    ELSE st

\* The end of _do_delete when the log rewrite h has returned, the files are
\* removed (f) and the log is read again (l): the refreshed state.
Refreshed(st, count, h, f, l) ==
    IF l.outcome # "ok"
    THEN [outcome |-> l.outcome, state |-> st, dir |-> h.dir, inodes |-> h.inodes,
          fs |-> f.fs, calls |-> f.calls \o <<Call("load_sessions", {}, <<>>)>>]
    ELSE [outcome |-> "returned",
          state |-> [FixCursor([st EXCEPT !.sessions = l.sessions, !.selected = {},
                                          !.mode = MODE_SELECT, !._enriched_id = <<>>])
                       EXCEPT !.scroll_offset = 0, !.message = DeletedMessage(count)],
          dir |-> h.dir, inodes |-> h.inodes, fs |-> f.fs,
          calls |-> f.calls \o <<Call("load_sessions", {}, <<>>)>>]

\* The files removed whatever the outcome of the log rewrite.
RemovedWhateverRewrite(st, h, t, rf) ==
    The({[Refreshed(st, Cardinality(st.selected), h, f, l) EXCEPT !.outcome = h.outcome] :
            f \in {DeleteSelectedFiles(st.sessions, 1, st.selected, t, rf)},
            l \in {load_sessions(h.inodes[h.dir.hist])}})

\* _do_delete from the return of the log rewrite h on: nothing more when the
\* rewrite has ended the process.
AfterRewrite(st, h, t, rf) ==
    IF h.outcome # "returned"
    THEN [outcome |-> h.outcome, state |-> st, dir |-> h.dir, inodes |-> h.inodes,
          fs |-> t, calls |-> <<>>]
    ELSE The({Refreshed(st, Cardinality(st.selected), h, f, l) :
                 f \in {DeleteSelectedFiles(st.sessions, 1, st.selected, t, rf)},
                 l \in {load_sessions(h.inodes[h.dir.hist])}})

\* The calls put in the order they were made.
WithFirstCall(c, r) == [r EXCEPT !.calls = <<c>> \o r.calls]

\* _do_delete(state) over the log files d and ins and the tree t, the log
\* rewrite meeting fault: how it ends, the state, the files and the tree
\* afterwards, and the calls made.
_do_delete(st, d, ins, t, rf, fault) ==
    The({WithFirstCall(Call("delete_sessions_from_history", st.selected, <<>>), r) :
            r \in {AfterRewrite(st, h, t, rf) :
                     h \in {delete_sessions_from_history(d, ins, st.selected, fault)}}})

\* The flag cleared, the prompt left on the status bar.
CancelKeepingMessage(st) == [st EXCEPT !.confirming = FALSE]

\* The else branch of the confirmation prompt: any other key cancels.
CancelConfirmation(st) == [st EXCEPT !.confirming = FALSE, !.message = NoMessage]

\* ------------------------------------------------------------ the log file
\* The lines found at the event-log path.
History == IF dir.hist = 0 THEN <<>> ELSE inodes[dir.hist]

NotLoaded == [outcome |-> "none", sessions |-> <<>>]

\* The two messages of load_sessions for a log it cannot open.
NotFoundMessage == "Error: history.jsonl not found. Is Claude Code installed?"
PermissionMessage == "Error: Cannot read history.jsonl. Check permissions."

\* An empty list returned where the call should have ended the process.
ReturnEmpty(msg) == [outcome |-> "ok", message |-> "", sessions |-> <<>>]

\* print(msg, file=sys.stderr); sys.exit(1)
ExitWith(msg) == [outcome |-> "exit1", message |-> msg, sessions |-> <<>>]

\* The states the log path may be in when a command starts: a readable file,
\* no file, a file this user may not read.
LogAccess ==
    {[hist |-> 1, unreadable |-> FALSE], [hist |-> 0, unreadable |-> FALSE],
     [hist |-> 1, unreadable |-> TRUE]}

\* load_sessions() from its open() on: on directory d and inodes ins, the log
\* unreadable or not.
load_sessions_at(d, ins, unread) ==
    IF d.hist = 0 THEN ExitWith(NotFoundMessage)
    ELSE IF unread THEN ExitWith(PermissionMessage)
    ELSE The({[outcome |-> r.outcome, message |-> "", sessions |-> r.sessions] :
                 r \in {load_sessions(ins[d.hist])}})

FilesInit ==
    /\ dir = [hist |-> 1, tmp |-> 0]
    /\ inodes = << <<>> >>

\* No delete_sessions_from_history call under way, no reader.
HistIdle ==
    /\ hpc = "idle"
    /\ session_ids = {}
    /\ kept_lines = <<>>
    /\ removed_count = 0
    /\ wfd = 0
    /\ hret = <<>>
    /\ herr = {}
    /\ orig = <<>>
    /\ ncalls = 0
    /\ prev = <<>>
    /\ rdIno = 0
    /\ obs = <<>>

LoadIdle ==
    /\ lpc = "idle"
    /\ loaded = NotLoaded

\* A data root holding the log and the two directories, nothing else.
BareTree ==
    [loc \in Locs |->
        IF loc \in {Root, ProjectsDir, TodosDir, Outside} THEN Directory
        ELSE IF loc = Root \o <<HistoryName>> THEN FileOf(<<>>)
        ELSE Nothing]

\* No delete_session_files call under way.
DsfIdle ==
    /\ dpc = "idle"
    /\ dargs = [project_path |-> <<>>, session_id |-> <<>>]
    /\ deleted = <<>>
    /\ artifacts = <<>>
    /\ anext = 1

\* No dashboard running.
TuiIdle ==
    /\ state = _State(<<>>)
    /\ term = [max_y |-> 0, max_x |-> 0]
    /\ tpc = "idle"
    /\ workdirs = {}
    /\ key = ""
    /\ confirm_pressed = FALSE
    /\ calls = <<>>

\* No command running, the log readable.
CmdIdle ==
    /\ unreadable = FALSE
    /\ cmd = "none"
    /\ cpc = "idle"
    /\ carg = <<>>
    /\ printed = <<>>
    /\ subject = <<>>
    /\ detail = NotEnriched

TreeIdle ==
    /\ fs = BareTree
    /\ fs0 = BareTree
    /\ refused = {}
    /\ DsfIdle
    /\ TuiIdle
    /\ CmdIdle

\* ------------------------------------------- specification of the aggregator
LoadInit ==
    /\ FilesInit
    /\ LoadIdle
    /\ HistIdle
    /\ TreeIdle

\* The assistant appends one line to the event log.
AppendLine(l) ==
    /\ lpc = "idle"
    /\ Len(History) < MaxLog
    /\ inodes' = [inodes EXCEPT ![dir.hist] = Append(@, l)]
    /\ UNCHANGED <<dir, loadVars, histVars, readerVars, nonDataVars>>

\* A command calls load_sessions().
LoadSessions ==
    /\ lpc = "idle"
    /\ loaded' = load_sessions(History)
    /\ lpc' = "done"
    /\ UNCHANGED <<fileVars, histVars, readerVars, nonDataVars>>

LoadNext ==
    \/ \E l \in Lines : AppendLine(l)
    \/ LoadSessions

SpecLoad == LoadInit /\ [][LoadNext]_vars

\* ------------------------------ specification of delete_session_files, step by step
\* The trees the call starts from. The directory of project "/p" is a
\* directory, a symlink to the outside directory, or missing; the detail file
\* and the directory of session "a" in it are there, symlinks leading outside,
\* or missing; sessions "ab" and "b" have their files there or not; a stray
\* artifact of "a" is a file, a symlink leading outside, or missing; the
\* outside directory holds a.jsonl and a directory a, or not, and always a file
\* whose name contains "a".
LayoutOptions ==
    [pd : {"dir", "link", "none"}, j : {"file", "link", "none"}, d : {"dir", "link", "none"},
     ab : BOOLEAN, b : {"jsonl", "dir", "none"}, t : {"file", "link", "none"},
     oj : BOOLEAN, od : BOOLEAN]

OutsideNote == Outside \o << <<"n", "a">> >>

Layout(o) ==
    [loc \in Locs |->
        LET inP(e) == IF o.pd = "dir" THEN e ELSE Nothing IN
        CASE loc \in {Root, ProjectsDir, TodosDir, Outside} -> Directory
          [] loc = Root \o <<HistoryName>> -> FileOf(<<>>)
          [] loc = OutsideNote -> FileOf(<<>>)
          [] loc = SlugDirP ->
                CASE o.pd = "dir" -> Directory
                  [] o.pd = "link" -> LinkTo(Outside)
                  [] OTHER -> Nothing
          [] loc = SlugDirP \o << <<"a", ".jsonl">> >> ->
                inP(CASE o.j = "file" -> FileOf(<<>>)
                      [] o.j = "link" -> LinkTo(OutsideNote)
                      [] OTHER -> Nothing)
          [] loc = SlugDirP \o << <<"a">> >> ->
                inP(CASE o.d = "dir" -> Directory
                      [] o.d = "link" -> LinkTo(Outside \o << <<"a">> >>)
                      [] OTHER -> Nothing)
          [] loc = SlugDirP \o << <<"a">>, <<"x">> >> ->
                inP(IF o.d = "dir" THEN FileOf(<<>>) ELSE Nothing)
          [] loc = SlugDirP \o << <<"a", "b", ".jsonl">> >> ->
                inP(IF o.ab THEN FileOf(<<>>) ELSE Nothing)
          [] loc = SlugDirP \o << <<"a", "b">> >> ->
                inP(IF o.ab THEN Directory ELSE Nothing)
          [] loc = SlugDirP \o << <<"b", ".jsonl">> >> ->
                inP(IF o.b = "jsonl" THEN FileOf(<<>>) ELSE Nothing)
          [] loc = SlugDirP \o << <<"b">> >> ->
                inP(IF o.b = "dir" THEN Directory ELSE Nothing)
          [] loc = TodosDir \o << <<"a", "-", "x">> >> ->
                CASE o.t = "file" -> FileOf(<<>>)
                  [] o.t = "link" -> LinkTo(OutsideNote)
                  [] OTHER -> Nothing
          [] loc = Outside \o << <<"a", ".jsonl">> >> ->
                IF o.oj THEN FileOf(<<>>) ELSE Nothing
          [] loc = Outside \o << <<"a">> >> ->
                IF o.od THEN Directory ELSE Nothing
          [] loc = Outside \o << <<"a">>, <<"x">> >> ->
                IF o.od THEN FileOf(<<>>) ELSE Nothing
          [] OTHER -> Nothing]

\* The removals the system may refuse: none, or that of one location.
RefusedSets ==
    {{}, {SlugDirP \o << <<"a", ".jsonl">> >>}, {SlugDirP \o << <<"a">> >>},
     {TodosDir \o << <<"a", "-", "x">> >>}, {SlugDirP}}

\* The project paths of the calls: "/p", and "." as a log line may give it.
DotP == <<".">>
DsfProjects == {ProjP, DotP}
\* "history" is an id that the name of the event log contains.
DsfIds == {<<"a">>, <<"b">>, <<"history">>}

DsfInit ==
    /\ FilesInit
    /\ LoadIdle
    /\ HistIdle
    /\ \E o \in LayoutOptions : fs = Layout(o)
    /\ fs0 = fs
    /\ refused \in RefusedSets
    /\ DsfIdle
    /\ TuiIdle
    /\ CmdIdle

\* delete_session_files(project_path, session_id) is called.
DsfCall(project_path, session_id) ==
    /\ dpc = "idle"
    /\ dpc' = "step1"
    /\ dargs' = [project_path |-> project_path, session_id |-> session_id]
    /\ UNCHANGED <<nonTreeVars, treeVars, deleted, artifacts, anext>>

DsfJsonlPath == get_session_jsonl_path(dargs.project_path, dargs.session_id)

\* 1. Delete the primary .jsonl file.
DsfPrimary ==
    /\ dpc = "step1"
    /\ LET st == DeletePrimary([fs |-> fs, deleted |-> deleted], DsfJsonlPath, refused) IN
        /\ fs' = st.fs
        /\ deleted' = st.deleted
    /\ dpc' = "step2"
    /\ UNCHANGED <<nonTreeVars, fs0, refused, dargs, artifacts, anext>>

\* 2. Delete the per-session directory.
DsfSessionDir ==
    /\ dpc = "step2"
    /\ LET st == DeleteSessionDir([fs |-> fs, deleted |-> deleted],
                                  WithoutSuffix(DsfJsonlPath), refused) IN
        /\ fs' = st.fs
        /\ deleted' = st.deleted
    /\ dpc' = "search"
    /\ UNCHANGED <<nonTreeVars, fs0, refused, dargs, artifacts, anext>>

\* 3. artifacts = find_session_artifacts(session_id, claude_dir=root)
DsfSearch ==
    /\ dpc = "search"
    /\ artifacts' = find_session_artifacts(fs, dargs.session_id)
    /\ anext' = 1
    /\ dpc' = "loop"
    /\ UNCHANGED <<nonTreeVars, treeVars, dargs, deleted>>

\* One turn of: for artifact in artifacts.
DsfArtifact ==
    /\ dpc = "loop"
    /\ anext <= Len(artifacts)
    /\ LET st == DeleteArtifact([fs |-> fs, deleted |-> deleted], artifacts[anext], refused) IN
        /\ fs' = st.fs
        /\ deleted' = st.deleted
    /\ anext' = anext + 1
    /\ UNCHANGED <<nonTreeVars, fs0, refused, dpc, dargs, artifacts>>

\* 4. Remove the project directory if it has no remaining .jsonl files; return.
DsfProjectDir ==
    /\ dpc = "loop"
    /\ anext > Len(artifacts)
    /\ LET st == DeleteProjectDir([fs |-> fs, deleted |-> deleted],
                                  ProjectDirOf(dargs.project_path), refused) IN
        /\ fs' = st.fs
        /\ deleted' = st.deleted
    /\ dpc' = "done"
    /\ UNCHANGED <<nonTreeVars, fs0, refused, dargs, artifacts, anext>>

DsfNext ==
    \/ \E p \in DsfProjects, i \in DsfIds : DsfCall(p, i)
    \/ DsfPrimary
    \/ DsfSessionDir
    \/ DsfSearch
    \/ DsfArtifact
    \/ DsfProjectDir

SpecDsf == DsfInit /\ [][DsfNext]_vars

\* ------------------------------------------- specification of the dashboard
\* Every log of at most MaxLog lines.
LogsOf(alphabet) == UNION {[1..n -> alphabet] : n \in 0..MaxLog}

\* The logs the dashboard may start on: no session, one, two or three of them
\* (sessions "a" and "b" of project "/p", session "c" of project "/q"), and a
\* log load_sessions fails on.
TuiLog ==
    <<Rec(<<"a">>, 600, <<"x">>, ProjP), Rec(<<"b">>, 1200, <<"x">>, ProjP),
      Rec(<<"c">>, 1200, <<"y">>, ProjQ)>>
TuiLogs == {SubSeq(TuiLog, 1, n) : n \in 0..Len(TuiLog)} \cup {<<TuiLog[1], NonObjectLine>>}

\* The tree the dashboard runs over: the detail file and the directory of
\* session "a", the detail file of session "b", a stray artifact of "a".
TuiTree ==
    [loc \in Locs |->
        CASE loc \in {Root, ProjectsDir, TodosDir, Outside, SlugDirP} -> Directory
          [] loc = Root \o <<HistoryName>> -> FileOf(<<>>)
          [] loc = SlugDirP \o << <<"a", ".jsonl">> >> ->
                FileOf(<<BlankDetail,
                         DetailLine(<<StrItem("t1"), OtherItem, StrItem("t1")>>),
                         GarbageDetail, NoTodosLine, DetailLine(<<DictItem("t2")>>)>>)
          [] loc = SlugDirP \o << <<"a">> >> -> Directory
          [] loc = SlugDirP \o << <<"a">>, <<"x">> >> -> FileOf(<<>>)
          [] loc = SlugDirP \o << <<"b", ".jsonl">> >> -> FileOf(<<>>)
          [] loc = TodosDir \o << <<"a", "-", "x">> >> -> FileOf(<<>>)
          [] OTHER -> Nothing]

\* Terminal sizes: too small, one and two data rows without the banner, five
\* data rows with the banner.
Sizes ==
    {[max_y |-> 2, max_x |-> 80], [max_y |-> 3, max_x |-> 80],
     [max_y |-> 4, max_x |-> 30], [max_y |-> 12, max_x |-> 80]}

TuiInit ==
    /\ \E a \in LogAccess :
          /\ dir = [hist |-> a.hist, tmp |-> 0]
          /\ unreadable = a.unreadable
          /\ \E log \in (IF a.hist = 1 /\ ~a.unreadable THEN TuiLogs ELSE {TuiLog}) :
                inodes = <<log>>
    /\ cmd = "tui"
    /\ cpc = "dashboard"
    /\ carg = <<>>
    /\ printed = <<>>
    /\ subject = <<>>
    /\ detail = NotEnriched
    /\ LoadIdle
    /\ HistIdle
    /\ fs = TuiTree
    /\ fs0 = fs
    /\ refused = {}
    /\ DsfIdle
    /\ state = _State(<<>>)
    /\ term = [max_y |-> 12, max_x |-> 80]
    /\ tpc = "start"
    /\ workdirs = {ProjP}
    /\ key = ""
    /\ confirm_pressed = FALSE
    /\ calls = <<>>

tuiFrame == <<loadVars, histVars, readerVars, fs0, refused, dsfVars, workdirs, cmdVars,
              detailVars>>

\* _main up to the loop: sessions = load_sessions(); state = _State(sessions)
TuiStart ==
    /\ tpc = "start"
    /\ \E r \in {load_sessions_at(dir, inodes, unreadable)} :
        /\ tpc' = CASE r.outcome = "ok" -> "render"
                     [] r.outcome = "exit1" -> "exit1"
                     [] OTHER -> "raised"
        /\ state' = IF r.outcome = "ok" THEN _State(r.sessions) ELSE state
        /\ printed' = IF r.outcome = "exit1" THEN <<r.message>> ELSE printed
    /\ calls' = <<Call("load_sessions", {}, <<>>)>>
    /\ UNCHANGED <<fileVars, fs, loadVars, histVars, readerVars, fs0, refused, dsfVars,
                   workdirs, unreadable, cmd, cpc, carg, detailVars, term, key,
                   confirm_pressed>>

\* _render(stdscr, state)
TuiRender ==
    /\ tpc = "render"
    /\ LET r == _render(state, term, fs) IN
        /\ state' = r.state
        /\ calls' = r.calls
        /\ tpc' = IF r.outcome = "ok" THEN "getch" ELSE "raised"
    /\ UNCHANGED <<fileVars, fs, tuiFrame, term, key, confirm_pressed>>

\* getch() gives -1: no input within the timeout.
TuiTimeout ==
    /\ tpc = "getch"
    /\ key' = "-1"
    /\ calls' = <<>>
    /\ tpc' = "render"
    /\ UNCHANGED <<fileVars, fs, tuiFrame, state, term, confirm_pressed>>

\* A resize taken for a key at the prompt, which cancels.
ResizeCancelling(st) == [st EXCEPT !.confirming = FALSE, !.message = NoMessage]

\* if key == curses.KEY_RESIZE: stdscr.clear(); continue
AfterResize(st) == st

\* The terminal takes another size and getch() gives KEY_RESIZE.
TuiResize(size) ==
    /\ tpc = "getch"
    /\ size # term
    /\ term' = size
    /\ key' = "KEY_RESIZE"
    /\ state' = AfterResize(state)
    /\ calls' = <<>>
    /\ tpc' = "render"
    /\ UNCHANGED <<fileVars, fs, tuiFrame, confirm_pressed>>

\* What every key press does to the two records of the input.
Pressed(k) ==
    /\ key' = k
    /\ confirm_pressed' =
          (k \in EnterKeys /\ state.mode = MODE_DELETE /\ state.selected # {})

\* What _do_delete, ending as r tells, leaves.
TuiDeleted(r) ==
    /\ state' = r.state
    /\ dir' = r.dir
    /\ inodes' = r.inodes
    /\ fs' = r.fs
    /\ calls' = r.calls
    /\ tpc' = IF r.outcome = "returned" THEN "render" ELSE r.outcome

\* getch() gives the affirmative key while the confirmation prompt is up.
TuiConfirmedDelete(k) ==
    /\ tpc = "getch"
    /\ state.confirming
    /\ k \in YesKeys
    /\ Pressed(k)
    /\ \E fault \in Faults(ReadKept(History, 1, state.selected, <<>>, 0).kept_lines) :
          \E r \in {_do_delete(CancelConfirmation(state), dir, inodes, fs, refused, fault)} :
              TuiDeleted(r)
    /\ UNCHANGED <<tuiFrame, term>>

\* getch() gives any other key while the confirmation prompt is up.
TuiCancel(k) ==
    /\ tpc = "getch"
    /\ state.confirming
    /\ k \notin YesKeys
    /\ Pressed(k)
    /\ state' = CancelConfirmation(state)
    /\ calls' = <<>>
    /\ tpc' = "render"
    /\ UNCHANGED <<fileVars, fs, tuiFrame, term>>

\* The message left as it is.
MessageKept(st) == st

\* Clear transient messages on any keypress
ClearMessage(st) == [st EXCEPT !.message = NoMessage]

\* The key given to the SELECT-mode handler although the list is empty; a
\* handler that would index the list does nothing.
EmptyListKeyDispatched(k, st) ==
    IF k \in EnterKeys THEN [state |-> st, action |-> "None"] ELSE _handle_select_key(k, st)

\* if not state.sessions: only Q works
EmptyListKey(k, st) == [state |-> st, action |-> IF k \in QuitKeys THEN "quit" ELSE "None"]

\* getch() gives a key while the list is empty: only Q works.
TuiEmptyKey(k) ==
    /\ tpc = "getch"
    /\ ~state.confirming
    /\ state.sessions = <<>>
    /\ Pressed(k)
    /\ \E h \in {EmptyListKey(k, ClearMessage(state))} :
          /\ state' = h.state
          /\ tpc' = IF h.action = "quit" THEN "quit" ELSE "render"
    /\ calls' = <<>>
    /\ UNCHANGED <<fileVars, fs, tuiFrame, term>>

\* getch() gives a key in SELECT mode.
TuiSelectKey(k) ==
    /\ tpc = "getch"
    /\ ~state.confirming
    /\ state.sessions # <<>>
    /\ state.mode = MODE_SELECT
    /\ Pressed(k)
    /\ LET h == _handle_select_key(k, ClearMessage(state))
           l == _do_launch(h.state, workdirs)
       IN CASE h.action = "quit" ->
                  /\ state' = h.state
                  /\ calls' = <<>>
                  /\ tpc' = "quit"
            [] h.action = "launch" ->
                  /\ state' = l.state
                  /\ calls' = l.calls
                  /\ tpc' = IF l.execd THEN "exec" ELSE "render"
            [] OTHER ->
                  /\ state' = h.state
                  /\ calls' = <<>>
                  /\ tpc' = "render"
    /\ UNCHANGED <<fileVars, fs, tuiFrame, term>>

\* getch() gives a key in DELETE mode.
TuiDeleteKey(k) ==
    /\ tpc = "getch"
    /\ ~state.confirming
    /\ state.sessions # <<>>
    /\ state.mode = MODE_DELETE
    /\ Pressed(k)
    /\ LET h == _handle_delete_key(k, ClearMessage(state)) IN
        /\ state' = h.state
        /\ tpc' = IF h.action = "quit" THEN "quit" ELSE "render"
    /\ calls' = <<>>
    /\ UNCHANGED <<fileVars, fs, tuiFrame, term>>

TuiNext ==
    \/ TuiStart
    \/ TuiRender
    \/ TuiTimeout
    \/ \E size \in Sizes : TuiResize(size)
    \/ \E k \in Keys : TuiConfirmedDelete(k)
    \/ \E k \in Keys : TuiCancel(k)
    \/ \E k \in Keys : TuiEmptyKey(k)
    \/ \E k \in Keys : TuiSelectKey(k)
    \/ \E k \in Keys : TuiDeleteKey(k)

SpecTui == TuiInit /\ [][TuiNext]_vars

\* ------------------------------------------- specification of the commands
\* ls, launch <id> and delete <id> from their first statement to their end, and
\* the dashboard.
Commands == {"ls", "launch", "delete", "tui"}

\* The session_id arguments: two ids of the log, an id that is not in it, and
\* the empty string, a prefix of every id.
CmdArgs == {<<"a">>, <<"c">>, <<"z">>, <<>>}

\* What input() gives: a line, or "EOF" for EOFError and KeyboardInterrupt.
Answers == {"y", " Y ", "n", "", "yes", "EOF"}

\* answer.strip().lower()
StripLower(a) == IF a \in {"y", " Y "} THEN "y" ELSE IF a = "yes" THEN "yes"
                 ELSE IF a = "n" THEN "n" ELSE ""

NoSessionsFound == "No sessions found."
Table == "table"
SessionNotFound == "Error: Session not found."
ProjectDirGone == "Error: Project directory no longer exists."
SessionInfo == "info"
Aborted == "Aborted."
RewriteFailed == "Error: Failed to write history.jsonl"
SessionDeleted == "Session deleted."

\* The for loop of launch.py and delete.py: the first session whose id is
\* session_id or starts with it, <<>> for None.
Match(sessions, i, session_id) ==
    IF \E j \in i..Len(sessions) : IsPrefix(session_id, sessions[j].session_id)
    THEN <<sessions[CHOOSE j \in i..Len(sessions) :
                /\ IsPrefix(session_id, sessions[j].session_id)
                /\ \A h \in i..(j - 1) : ~IsPrefix(session_id, sessions[h].session_id)]>>
    ELSE <<>>

CmdInit ==
    /\ \E a \in LogAccess :
          /\ dir = [hist |-> a.hist, tmp |-> 0]
          /\ unreadable = a.unreadable
    /\ \E log \in TuiLogs : inodes = <<log>>
    /\ LoadIdle
    /\ HistIdle
    /\ fs = TuiTree
    /\ fs0 = fs
    /\ refused = {}
    /\ DsfIdle
    /\ cmd \in Commands
    /\ carg \in (IF cmd \in {"launch", "delete"} THEN CmdArgs ELSE {<<>>})
    /\ cpc = IF cmd = "tui" THEN "dashboard" ELSE "load"
    /\ printed = <<>>
    /\ subject = <<>>
    /\ detail = NotEnriched
    /\ state = _State(<<>>)
    /\ term = [max_y |-> 12, max_x |-> 80]
    /\ tpc = IF cmd = "tui" THEN "start" ELSE "idle"
    /\ workdirs = {ProjP}
    /\ key = ""
    /\ confirm_pressed = FALSE
    /\ calls = <<>>

cmdFrame == <<lpc, histVars, readerVars, fs0, refused, dsfVars, state, term, tpc, workdirs,
              key, confirm_pressed, unreadable, cmd, carg, detailVars>>

\* sessions = load_sessions(), the first statement of ls, launch and delete
CmdLoad ==
    /\ cmd \in {"ls", "launch", "delete"}
    /\ cpc = "load"
    /\ \E r \in {load_sessions_at(dir, inodes, unreadable)} :
        /\ cpc' = CASE r.outcome = "ok" -> "loaded"
                    [] r.outcome = "exit1" -> "exit1"
                    [] OTHER -> "raised"
        /\ loaded' = IF r.outcome = "ok" THEN [outcome |-> "ok", sessions |-> r.sessions]
                     ELSE loaded
        /\ printed' = IF r.outcome = "exit1" THEN <<r.message>> ELSE printed
    /\ calls' = <<Call("load_sessions", {}, <<>>)>>
    /\ UNCHANGED <<fileVars, fs, cmdFrame>>

\* ls: the notice for no session, or the table
CmdLs ==
    /\ cmd = "ls"
    /\ cpc = "loaded"
    /\ printed' = IF loaded.sessions = <<>> THEN <<NoSessionsFound>> ELSE <<Table>>
    /\ cpc' = "exit0"
    /\ calls' = <<>>
    /\ UNCHANGED <<fileVars, fs, loaded, cmdFrame>>

\* launch and delete: the search for the session, and what delete prints of it
CmdMatch ==
    /\ cmd \in {"launch", "delete"}
    /\ cpc = "loaded"
    /\ \E match \in {Match(loaded.sessions, 1, carg)} :
        /\ cpc' = IF match = <<>> THEN "exit1" ELSE "matched"
        /\ printed' = IF match = <<>> THEN <<SessionNotFound>>
                      ELSE IF cmd = "delete" THEN <<SessionInfo>> ELSE printed
    /\ calls' = <<>>
    /\ UNCHANGED <<fileVars, fs, loaded, cmdFrame>>

\* launch: the directory test, os.chdir and os.execvp
CmdLaunch ==
    /\ cmd = "launch"
    /\ cpc = "matched"
    /\ \E match \in {Match(loaded.sessions, 1, carg)[1]} :
        IF match.project_path \in workdirs
        THEN /\ cpc' = "exec"
             /\ calls' = <<Call("execvp", {match.session_id}, match.project_path)>>
             /\ printed' = printed
        ELSE /\ cpc' = "exit1"
             /\ calls' = <<>>
             /\ printed' = Append(printed, ProjectDirGone)
    /\ UNCHANGED <<fileVars, fs, loaded, cmdFrame>>

\* delete: input("Delete this session? [y/N] ") and the test of the answer
CmdAnswer(a) ==
    /\ cmd = "delete"
    /\ cpc = "matched"
    /\ IF a # "EOF" /\ StripLower(a) = "y"
       THEN /\ cpc' = "confirmed"
            /\ printed' = printed
       ELSE /\ cpc' = "exit0"
            /\ printed' = Append(printed, Aborted)
    /\ calls' = <<>>
    /\ UNCHANGED <<fileVars, fs, loaded, cmdFrame>>

\* delete: delete_sessions_from_history({match.session_id})
CmdRewrite ==
    /\ cmd = "delete"
    /\ cpc = "confirmed"
    /\ \E match \in {Match(loaded.sessions, 1, carg)[1]} :
        \E fault \in Faults(ReadKept(History, 1, {match.session_id}, <<>>, 0).kept_lines) :
            \E h \in {delete_sessions_from_history(dir, inodes, {match.session_id}, fault)} :
                /\ dir' = h.dir
                /\ inodes' = h.inodes
                /\ cpc' = IF h.outcome = "returned" THEN "rewritten" ELSE h.outcome
                /\ printed' = IF h.outcome = "exit1" THEN Append(printed, RewriteFailed)
                              ELSE printed
                /\ calls' = <<Call("delete_sessions_from_history", {match.session_id}, <<>>)>>
    /\ UNCHANGED <<fs, loaded, cmdFrame>>

\* delete: delete_session_files(match.project_path, match.session_id) and the
\* last print
CmdRemove ==
    /\ cmd = "delete"
    /\ cpc = "rewritten"
    /\ \E match \in {Match(loaded.sessions, 1, carg)[1]} :
        /\ \E r \in {delete_session_files(fs, match.project_path, match.session_id, refused)} :
              fs' = r.fs
        /\ calls' = <<Call("delete_session_files", {match.session_id}, match.project_path)>>
    /\ cpc' = "exit0"
    /\ printed' = Append(printed, SessionDeleted)
    /\ UNCHANGED <<fileVars, loaded, cmdFrame>>

CmdNext ==
    \/ CmdLoad
    \/ CmdLs
    \/ CmdMatch
    \/ CmdLaunch
    \/ \E a \in Answers : CmdAnswer(a)
    \/ CmdRewrite
    \/ CmdRemove
    \/ TuiNext

SpecCmd == CmdInit /\ [][CmdNext]_vars

\* ------------------------------------------- specification of the enricher
\* load_session_detail called, again and again, on a detail file that grows.
MaxDetail == 2

\* The lines a detail file is made of.
DetailAlphabet ==
    {BlankDetail, GarbageDetail, NonObjectDetail, NoTodosLine, DetailLine(<<>>),
     DetailLine(<<StrItem("t1")>>), DetailLine(<<DictItem("t2"), OtherItem, StrItem("t1")>>),
     DetailLine(<<StrItem("t2"), ListItem>>)}

\* What is at the path of the detail file: nothing, a file, a directory
\* (open() raises an OSError), a symlink to a file, a symlink to nothing.
DetailShapes == {"missing", "file", "dir", "link", "dangling"}

DetailPath == SlugDirP \o << <<"a", ".jsonl">> >>
DetailTarget == Outside \o << <<"a", ".jsonl">> >>

DetailTree(shape) ==
    [loc \in Locs |->
        CASE loc \in {Root, ProjectsDir, TodosDir, Outside, SlugDirP} -> Directory
          [] loc = Root \o <<HistoryName>> -> FileOf(<<>>)
          [] loc = DetailPath ->
                CASE shape = "missing" -> Nothing
                  [] shape = "file" -> FileOf(<<>>)
                  [] shape = "dir" -> Directory
                  [] OTHER -> LinkTo(DetailTarget)
          [] loc = DetailTarget -> IF shape = "link" THEN FileOf(<<>>) ELSE Nothing
          [] OTHER -> Nothing]

\* Session "a" of project "/p" as load_sessions builds it, and as an earlier
\* enrichment left it.
DetailSubjects ==
    {[session EXCEPT !.todos = t] :
        session \in {load_sessions(<<TuiLog[1]>>).sessions[1]}, t \in {<<>>, <<"old">>}}

DetailInit ==
    /\ FilesInit
    /\ LoadIdle
    /\ HistIdle
    /\ \E shape \in DetailShapes : fs = DetailTree(shape)
    /\ fs0 = fs
    /\ refused = {}
    /\ DsfIdle
    /\ TuiIdle
    /\ unreadable = FALSE
    /\ cmd = "none"
    /\ cpc = "idle"
    /\ carg = <<>>
    /\ printed = <<>>
    /\ subject \in DetailSubjects
    /\ detail = NotEnriched

\* The file the detail path leads to.
DetailFile == Resolve(fs, DetailPath)

\* The session's own process appends a line to the detail file.
DetailAppend(line) ==
    /\ At(fs, DetailFile).k = "file"
    /\ Len(At(fs, DetailFile).data) < MaxDetail
    /\ fs' = [fs EXCEPT ![DetailFile] = FileOf(Append(@.data, line))]
    /\ UNCHANGED <<fs0, refused, dsfVars, nonTreeVars>>

\* load_session_detail(session), on the Session the call before left
Enrich ==
    /\ detail.outcome # "raised"
    /\ \E session \in (IF detail.outcome = "none" THEN {subject} ELSE {detail.session}) :
        /\ subject' = session
        /\ detail' = load_session_detail(fs, session)
    /\ UNCHANGED <<treeVars, dsfVars, fileVars, loadVars, histVars, readerVars, tuiVars, cmdVars>>

DetailNext ==
    \/ \E line \in DetailAlphabet : DetailAppend(line)
    \/ Enrich

SpecDetail == DetailInit /\ [][DetailNext]_vars

\* C12 (as claimed): whatever the state of the detail file, load_session_detail
\* returns without raising, and a call that could read no todos leaves the
\* Session as it was given.
C12_NeverRaises ==
    detail.outcome # "none" =>
        /\ detail.outcome = "ok"
        /\ At(fs, DetailFile).k # "file" => detail.session = subject

\* What holds of it: a missing file, a dangling link and a path that cannot be
\* opened leave the Session as it was given, and blank and unparseable lines
\* and items that are neither strings nor objects are passed over.
C12_MissingOrUnopenable ==
    (detail.outcome # "none" /\ At(fs, DetailFile).k # "file") =>
        /\ detail.outcome = "ok"
        /\ detail.session = subject

\* The todo values of the records of a detail file, in the order of the file:
\* the strings, and the contents of the objects.
RECURSIVE TodoValues(_)
TodoValues(lines) ==
    IF lines = <<>> THEN <<>>
    ELSE LET line == Head(lines)
             items == IF line.kind = "obj" /\ line.todos # <<>> THEN line.todos[1] ELSE <<>>
             kept == SelectSeq(items, LAMBDA item : item.k \in {"str", "dict"})
         IN [j \in 1..Len(kept) |-> kept[j].content] \o TodoValues(Tail(lines))

FirstIndex(values, v) == CHOOSE i \in 1..Len(values) :
    values[i] = v /\ \A h \in 1..(i - 1) : values[h] # v

\* todos lists each value of values once, in the order of first occurrence.
FirstOccurrences(todos, values) ==
    /\ \A i, j \in 1..Len(todos) : todos[i] = todos[j] => i = j
    /\ {todos[i] : i \in 1..Len(todos)} = {values[i] : i \in 1..Len(values)}
    /\ \A i, j \in 1..Len(todos) :
          i < j => FirstIndex(values, todos[i]) < FirstIndex(values, todos[j])

\* The step is a call of load_session_detail that read the detail file and
\* returned.
ReadDetail ==
    /\ fs' = fs
    /\ <<subject, detail>>' # <<subject, detail>>
    /\ detail'.outcome = "ok"
    /\ At(fs, DetailFile).k = "file"

\* C21: when load_session_detail has read a detail file, the todos of the
\* Session hold each todo value of the file's records once, in the order of
\* first occurrence, whatever todos the Session had; and the call made again
\* on the Session it returned, the file being the same, returns it unchanged.
C21_TodosDeduplicatedInOrder ==
    /\ [][ReadDetail =>
             FirstOccurrences(detail'.session.todos, TodoValues(At(fs, DetailFile).data))]_vars
    /\ [](\A r \in {load_session_detail(fs, subject)} :
            r.outcome = "ok" => load_session_detail(fs, r.session) = r)

\* The file holds t1, then t2 and t1 again, and the call that read it left the
\* todos t1, t2.
C21_Witness ==
    /\ detail.outcome = "ok"
    /\ At(fs, DetailFile).k = "file"
    /\ TodoValues(At(fs, DetailFile).data) = <<"t1", "t2", "t1">>
    /\ detail.session.todos = <<"t1", "t2">>

\* The log cannot be opened: it is missing, or may not be read.
LogMissing == dir.hist = 0
LogDenied == dir.hist # 0 /\ unreadable
FatalMessage == IF LogMissing THEN NotFoundMessage ELSE PermissionMessage

\* C11: when the event log is missing or may not be read, load_sessions returns
\* no list: the command (ls, launch, delete, the dashboard) ends with exit
\* status 1 having printed the message of the cause, the two messages differ,
\* and it has made no other call and changed no file.
C11_UnreadableLogIsFatal ==
    /\ NotFoundMessage # PermissionMessage
    /\ (LogMissing \/ LogDenied) =>
          /\ (cmd \in {"ls", "launch", "delete"} /\ cpc # "load") =>
                /\ cpc = "exit1"
                /\ loaded = NotLoaded
          /\ (cmd = "tui" /\ tpc # "start") =>
                /\ tpc = "exit1"
                /\ state = _State(<<>>)
          /\ (cpc = "exit1" \/ tpc = "exit1") =>
                /\ printed = <<FatalMessage>>
                /\ calls = <<Call("load_sessions", {}, <<>>)>>
                /\ fs = fs0
                /\ dir.tmp = 0

\* The delete command has ended on a log it may not read.
C11_Witness ==
    /\ cmd = "delete"
    /\ cpc = "exit1"
    /\ LogDenied
    /\ printed = <<PermissionMessage>>

\* ------------------------------------------------ properties of the dashboard
\* The ops of the Deletion Engine.
EngineOps == {"delete_sessions_from_history", "delete_session_files"}

\* The step is the handling of a key press.
KeyPressed == tpc = "getch" /\ key' \in Keys

\* C5: a step of the dashboard calls the Deletion Engine (log rewrite or artifact
\* removal) only when it handles an affirmative key (y/Y) with the confirming
\* flag set, and the key pressed just before was a confirm key pressed in DELETE
\* mode with a non-empty selection; a step sets the confirming flag only when
\* it handles a confirm key in DELETE mode, not confirming, with a non-empty
\* selection.
C5_DeletionOnlyAfterConfirmation ==
    [][/\ (\E i \in 1..Len(calls') : calls'[i].op \in EngineOps)
            => /\ KeyPressed
               /\ key' \in YesKeys
               /\ state.confirming
               /\ confirm_pressed
               /\ key \in EnterKeys \cup {"-1", "KEY_RESIZE"}
       /\ (~state.confirming /\ state'.confirming)
            => /\ KeyPressed
               /\ key' \in EnterKeys
               /\ state.mode = MODE_DELETE
               /\ state.selected # {}]_vars

\* A deletion has just been performed, after a resize that followed the confirm
\* key: the affirmative key was the next key pressed.
C5_Witness ==
    /\ key \in YesKeys
    /\ \E i \in 1..Len(calls) : calls[i].op = "delete_session_files"
    /\ calls[1].op = "delete_sessions_from_history"
    /\ term.max_y = 3

\* The delete_session_files calls of a step made for session id.
FileCallsFor(cs, id) ==
    {i \in 1..Len(cs) : cs[i].op = "delete_session_files" /\ cs[i].ids = {id}}

\* C6: when the affirmative key is pressed while confirming, the log rewrite is
\* invoked first, with the whole selection, and it returns or ends the process;
\* when it returns, artifact removal is invoked once for every selected id and
\* for no other, the session list is what load_sessions gives on the rewritten
\* log and holds no session with a deleted id, the selection is empty, the mode
\* SELECT, confirming false, the last-enriched id None, the cursor within
\* 0..max(0, len(sessions)-1), the scroll offset 0, and the message tells the
\* number of sessions that were selected.
C6_ConfirmedDeletion ==
    [][(KeyPressed /\ state.confirming /\ key' \in YesKeys)
         => /\ calls'[1] = Call("delete_sessions_from_history", state.selected, <<>>)
            /\ tpc' \in {"render", "exit1"}
            /\ tpc' = "render"
                 => /\ \A id \in state.selected : Cardinality(FileCallsFor(calls', id)) = 1
                    /\ \A i \in 2..Len(calls') :
                          calls'[i].op = "delete_session_files"
                              => calls'[i].ids \subseteq state.selected
                    /\ state'.sessions = load_sessions(History').sessions
                    /\ \A i \in 1..Len(state'.sessions) :
                          state'.sessions[i].session_id \notin state.selected
                    /\ state'.selected = {}
                    /\ state'.mode = MODE_SELECT
                    /\ ~state'.confirming
                    /\ state'._enriched_id = <<>>
                    /\ 0 <= state'.cursor
                    /\ state'.cursor <= Max(0, Len(state'.sessions) - 1)
                    /\ state'.scroll_offset = 0
                    /\ state'.message = DeletedMessage(Cardinality(state.selected))]_vars

\* Two of three sessions have just been deleted, the cursor having been on the
\* third row: one session is left and the cursor is on it.
C6_Witness ==
    /\ key \in YesKeys
    /\ tpc = "render"
    /\ Cardinality({i \in 1..Len(calls) : calls[i].op = "delete_session_files"}) = 2
    /\ state.message = DeletedMessage(2)
    /\ Len(state.sessions) = 1
    /\ state.cursor = 0
    /\ state.sessions[1].session_id = <<"a">>

\* C7: while confirming, a key other than the affirmative key cancels:
\* confirming becomes false, the message None, the mode stays DELETE, selection,
\* cursor, scroll offset and session list are unchanged, no call is made, the
\* log and the tree are unchanged, and the dashboard goes on to the next render.
C7_OtherKeyCancels ==
    [][(KeyPressed /\ state.confirming /\ key' \notin YesKeys)
         => /\ state' = [state EXCEPT !.confirming = FALSE, !.message = NoMessage]
            /\ state'.mode = MODE_DELETE
            /\ state'.selected = state.selected
            /\ state'.cursor = state.cursor
            /\ state'.sessions = state.sessions
            /\ calls' = <<>>
            /\ History' = History
            /\ fs' = fs
            /\ tpc' = "render"]_vars

\* The quit key has been pressed at the prompt: the dashboard is still running,
\* in DELETE mode, with its selection.
C7_Witness ==
    /\ key \in QuitKeys
    /\ tpc = "render"
    /\ state.mode = MODE_DELETE
    /\ Cardinality(state.selected) = 2
    /\ ~state.confirming
    /\ state.message = NoMessage

\* A list of five sessions, newest first, and the dashboard state made of it.
FiveSessions ==
    load_sessions(<<Rec(<<"a">>, 600, <<"x">>, ProjP), Rec(<<"b">>, 1200, <<"x">>, ProjP),
                    Rec(<<"c">>, 2000, <<"x">>, ProjP), Rec(<<"d">>, 61000, <<"x">>, ProjP),
                    Rec(<<"e">>, 62000, <<"x">>, ProjP)>>).sessions

\* The state after the SELECT-mode handler has handled these keys in turn.
RECURSIVE AfterSelectKeys(_, _)
AfterSelectKeys(st, ks) ==
    IF ks = <<>> THEN st
    ELSE AfterSelectKeys(_handle_select_key(Head(ks), st).state, Tail(ks))

\* A key handled by one of the two mode handlers: not at the prompt, the list
\* not empty.
HandlerKey == KeyPressed /\ ~state.confirming /\ state.sessions # <<>>

CursorInBounds ==
    /\ state.cursor >= 0
    /\ state.sessions # <<>> => state.cursor < Len(state.sessions)

\* What a step does to the cursor.
CursorStep ==
    /\ (HandlerKey /\ key' \in UpKeys) =>
          state'.cursor = (IF state.cursor = 0 THEN 0 ELSE state.cursor - 1)
    /\ (HandlerKey /\ key' \in DownKeys) =>
          state'.cursor = (IF state.cursor = Len(state.sessions) - 1
                           THEN state.cursor ELSE state.cursor + 1)
    /\ state'.cursor # state.cursor =>
          \/ (HandlerKey /\ key' \in UpKeys \cup DownKeys)
          \/ (KeyPressed /\ state.confirming /\ key' \in YesKeys)

ThreeDowns ==
    /\ Len(FiveSessions) = 5
    /\ AfterSelectKeys(_State(FiveSessions), <<"KEY_DOWN", "j", "KEY_DOWN">>).cursor = 3

\* C14: the cursor is never negative and, the list not being empty, is always an
\* index of it, whatever keys, resizes and confirmed deletions came before; an
\* up key at index 0 and a down key at the last index leave it where it is,
\* every other up or down key handled in SELECT or DELETE mode moves it by
\* exactly one, no other step but a confirmed deletion moves it; and three
\* down keys from row 0 of five sessions give row 3.
C14_CursorClamped == [](CursorInBounds /\ ThreeDowns) /\ [][CursorStep]_vars

\* The down key has been pressed in DELETE mode on the last but one of three
\* rows: the cursor is on the last row.
C14_Witness ==
    /\ key \in DownKeys
    /\ tpc = "render"
    /\ state.mode = MODE_DELETE
    /\ Len(state.sessions) = 3
    /\ state.cursor = 2

\* The ids of the sessions of the list.
IdsOf(sessions) == {sessions[i].session_id : i \in 1..Len(sessions)}

\* What a step does to the selection and the mode.
SelectionStep ==
    /\ ~(state'.selected \subseteq state.selected) =>
          (HandlerKey /\ state.mode = MODE_DELETE /\ key' \in ToggleKeys)
    /\ (HandlerKey /\ key' \in SelectModeKeys) =>
          /\ state' = [state EXCEPT !.mode = MODE_SELECT, !.selected = {},
                                    !.message = NoMessage]
          /\ state'.cursor = state.cursor
    /\ (state.mode = MODE_DELETE /\ state'.mode = MODE_SELECT) =>
          /\ state'.selected = {}
          /\ \/ (HandlerKey /\ key' \in SelectModeKeys)
             \/ (KeyPressed /\ state.confirming /\ key' \in YesKeys)

\* C15: in SELECT mode the selection is empty, from the first state on; only
\* the toggle key handled in DELETE mode adds an id to it; the mode goes back
\* from DELETE to SELECT only by the select-mode key and by a confirmed
\* deletion, and both leave the selection empty; the select-mode key clears
\* the message too and leaves the cursor and all the rest as they are.
C15_SelectModeNoSelection ==
    [](state.mode = MODE_SELECT => state.selected = {}) /\ [][SelectionStep]_vars

\* The select-mode key has been handled: the dashboard is in SELECT mode on its
\* second row, nothing selected, no message.
C15_Witness ==
    /\ key \in SelectModeKeys
    /\ tpc = "render"
    /\ state.mode = MODE_SELECT
    /\ state.selected = {}
    /\ state.cursor = 1
    /\ state.message = NoMessage

\* The id of the session under the cursor.
CursorId == SessionAt(state, state.cursor).session_id

\* What the toggle key does.
ToggleStep ==
    (HandlerKey /\ state.mode = MODE_DELETE /\ key' \in ToggleKeys) =>
        /\ state'.selected = (IF CursorId \in state.selected
                              THEN state.selected \ {CursorId}
                              ELSE state.selected \cup {CursorId})
        /\ state' = [state EXCEPT !.selected = state'.selected, !.message = NoMessage]

\* C16: the toggle key handled in DELETE mode flips the membership of the id
\* under the cursor and leaves the other ids, the cursor, the mode and the list
\* as they are; handled twice in a row it gives the selection back; and every
\* selected id is the id of a session of the list.
C16_ToggleFlips ==
    /\ [](state.selected \subseteq IdsOf(state.sessions))
    /\ []((state.mode = MODE_DELETE /\ state.sessions # <<>>) =>
            _handle_delete_key("\t", _handle_delete_key("\t", state).state).state.selected
                = state.selected)
    /\ [][ToggleStep]_vars

\* The toggle key has been handled on the second of three rows and has taken
\* its id out of the selection, which holds the id of the first row.
C16_Witness ==
    /\ key \in ToggleKeys
    /\ tpc = "render"
    /\ state.mode = MODE_DELETE
    /\ Len(state.sessions) = 3
    /\ state.cursor = 1
    /\ state.selected = {SessionAt(state, 0).session_id}

\* What the enter key does in SELECT mode, and what hands off.
LaunchStep ==
    /\ (HandlerKey /\ state.mode = MODE_SELECT /\ key' \in EnterKeys) =>
          IF SessionAt(state, state.cursor).project_path \in workdirs
          THEN /\ tpc' = "exec"
               /\ calls' = <<Call("execvp", {CursorId},
                                  SessionAt(state, state.cursor).project_path)>>
          ELSE /\ tpc' = "render"
               /\ calls' = <<>>
               /\ state' = [state EXCEPT !.message =
                                NoLongerExists(SessionAt(state, state.cursor).project_path)]
               /\ state'.mode = MODE_SELECT
    /\ (tpc' = "exec" \/ \E i \in 1..Len(calls') : calls'[i].op = "execvp") =>
          /\ HandlerKey /\ state.mode = MODE_SELECT /\ key' \in EnterKeys
          /\ SessionAt(state, state.cursor).project_path \in workdirs

\* C17: the enter key handled in SELECT mode hands off to the resume command,
\* for the session under the cursor, when its project directory is a directory,
\* and nothing else hands off; when it is not, no call is made, the message
\* names the directory, mode, cursor, selection and list are as they were and
\* the dashboard goes on to the next render.
C17_LaunchOnlyIfDirectory == [][LaunchStep]_vars

\* The enter key has been handled on session "c", whose project directory is
\* gone: the dashboard goes on with the error message.
C17_Witness ==
    /\ key \in EnterKeys
    /\ tpc = "render"
    /\ state.mode = MODE_SELECT
    /\ state.message = NoLongerExists(ProjQ)
    /\ Len(state.sessions) = 3
    /\ SessionAt(state, state.cursor).project_path = ProjQ

\* The step is a render, and a render that draws the panes.
RenderStep == tpc = "render" /\ tpc' # "render"
TooSmall(size) == size.max_y < 3 \/ size.max_x < 20
DataHeight(size) ==
    size.max_y - 1 - (IF size.max_y > _BANNER_HEIGHT + 5 THEN _BANNER_HEIGHT ELSE 0) - 1
PaneRender == RenderStep /\ ~TooSmall(term) /\ state.sessions # <<>>

\* C18 (as claimed): a render leaves the whole dashboard state as it was: mode,
\* cursor, scroll offset, selection, confirming flag, message, last-enriched id
\* and the Session records with their todos.
C18_RenderMutatesNothing == [][RenderStep => state' = state]_vars

\* What a render does leave as it was: mode, cursor, selection, confirming flag
\* and message, the log and the tree; and on an empty list or a terminal that
\* is too small, everything.
C18_RenderKeepsTheRest ==
    [][RenderStep =>
          /\ state'.mode = state.mode
          /\ state'.cursor = state.cursor
          /\ state'.selected = state.selected
          /\ state'.confirming = state.confirming
          /\ state'.message = state.message
          /\ IdsOf(state'.sessions) = IdsOf(state.sessions)
          /\ <<dir, inodes, fs>>' = <<dir, inodes, fs>>
          /\ ~PaneRender => state' = state]_vars

Distance(a, b) == IF a >= b THEN a - b ELSE b - a

\* The cursor row is one of the rows of the window that starts at offset.
InWindow(cursor, offset, size) == offset <= cursor /\ cursor < offset + DataHeight(size)

\* What a render of the panes does to the scroll offset.
ScrollStep ==
    PaneRender =>
        /\ state'.cursor = state.cursor
        /\ InWindow(state.cursor, state'.scroll_offset, term)
        /\ InWindow(state.cursor, state.scroll_offset, term) =>
              state'.scroll_offset = state.scroll_offset
        /\ state'.scroll_offset # state.scroll_offset =>
              state.cursor \in {state'.scroll_offset,
                                state'.scroll_offset + DataHeight(term) - 1}
        /\ \A o \in 0..Len(state.sessions) :
              InWindow(state.cursor, o, term) =>
                  Distance(state'.scroll_offset, state.scroll_offset)
                      <= Distance(o, state.scroll_offset)

\* C19: a render of a non-empty list on a terminal that is not too small leaves
\* scroll_offset <= cursor < scroll_offset + (pane_height - 1), and the window
\* still holds the cursor when the next key is read; the offset stays when the
\* cursor was inside the window already, and otherwise takes the value nearest
\* to the old one that puts the cursor in the window, as its first or its last
\* row.
C19_CursorVisible ==
    /\ []((tpc = "getch" /\ ~TooSmall(term) /\ state.sessions # <<>>) =>
            InWindow(state.cursor, state.scroll_offset, term))
    /\ [][ScrollStep]_vars

\* A render on a window of two rows has moved the offset from 0 to 1 to show
\* the third of three rows as the last one.
C19_Witness ==
    /\ tpc = "getch"
    /\ DataHeight(term) = 2
    /\ ~TooSmall(term)
    /\ Len(state.sessions) = 3
    /\ state.cursor = 2
    /\ state.scroll_offset = 1

DetailCalls(cs) == {i \in 1..Len(cs) : cs[i].op = "load_session_detail"}

\* What a step does about the enrichment.
EnrichStep ==
    /\ PaneRender =>
          /\ calls' = (IF state._enriched_id # <<CursorId>>
                       THEN <<Call("load_session_detail", {CursorId},
                                   SessionAt(state, state.cursor).project_path)>>
                       ELSE <<>>)
          /\ tpc' = "getch" => state'._enriched_id = <<CursorId>>
    /\ ~PaneRender =>
          /\ DetailCalls(calls') = {}
          /\ state'._enriched_id \in {state._enriched_id, <<>>}

\* C20: a render of the panes calls load_session_detail, once and for the
\* session under the cursor, when and only when the id of that session is not
\* the last-enriched id, and afterwards the last-enriched id is that id, so
\* that the renders that follow with the cursor on the same session make no
\* call; no other step calls it, and a step that is not a render leaves the
\* last-enriched id or resets it.
C20_EnrichOncePerPosition ==
    /\ []((tpc = "getch" /\ ~TooSmall(term) /\ state.sessions # <<>>) =>
            state._enriched_id = <<CursorId>>)
    /\ [][EnrichStep]_vars

\* A render after a timeout, the cursor on the session enriched before: no
\* call was made.
C20_Witness ==
    /\ tpc = "getch"
    /\ key = "-1"
    /\ calls = <<>>
    /\ ~TooSmall(term)
    /\ Len(state.sessions) = 3
    /\ state.cursor = 2
    /\ state._enriched_id = <<CursorId>>

\* The message a key handled outside the confirmation prompt leaves: the one
\* its own handler sets, or none.
MessageOfKey(k) ==
    IF state.sessions # <<>> /\ k \in EnterKeys
    THEN IF state.mode = MODE_DELETE
         THEN IF state.selected = {} THEN NoSessionsSelected
              ELSE DeletePrompt(Cardinality(state.selected))
         ELSE IF SessionAt(state, state.cursor).project_path \in workdirs THEN NoMessage
              ELSE NoLongerExists(SessionAt(state, state.cursor).project_path)
    ELSE NoMessage

\* getch() gives no key: a timeout or a resize event.
NoKey == tpc = "getch" /\ key' \in {"-1", "KEY_RESIZE"}

MessageStep ==
    /\ (KeyPressed /\ ~state.confirming) => state'.message = MessageOfKey(key')
    /\ NoKey => state'.message = state.message

\* C24: a key handled outside the confirmation prompt leaves no message but
\* the one its own handler sets (the notice of the empty selection, the prompt,
\* the resume error), whatever message was there, on an empty list too; a
\* timeout and a resize leave the message as it is.
C24_KeyClearsMessage == [][MessageStep]_vars

\* After a deletion, whose result message was shown, a down key has been
\* handled and no message is left.
C24_Witness ==
    /\ fs # fs0
    /\ key \in DownKeys
    /\ tpc = "render"
    /\ ~state.confirming
    /\ state.mode = MODE_SELECT
    /\ state.cursor = 1
    /\ state.message = NoMessage

EmptyListStep ==
    /\ (KeyPressed /\ state.sessions = <<>>) =>
          /\ state' = [state EXCEPT !.message = NoMessage]
          /\ calls' = <<>>
          /\ <<dir, inodes, fs>>' = <<dir, inodes, fs>>
          /\ tpc' = (IF key' \in QuitKeys THEN "quit" ELSE "render")
    /\ (RenderStep /\ state.sessions = <<>>) =>
          /\ state' = state
          /\ calls' = <<>>

\* C25: the list being empty, a key other than the quit key leaves mode,
\* cursor, scroll offset, selection and confirming flag as they are, makes no
\* call (no resume, no enrichment, no deletion), changes no file, and the
\* dashboard goes on; the quit key ends it; a render of the empty list makes no
\* call either. The same after a confirmed deletion has emptied the list.
C25_EmptyListOnlyQuit ==
    /\ [](state.sessions = <<>> => (~state.confirming /\ state.selected = {}))
    /\ [][EmptyListStep]_vars

\* The list emptied by a confirmed deletion, the delete-mode key has been
\* pressed: the dashboard is still in SELECT mode.
C25_Witness ==
    /\ fs # fs0
    /\ state.sessions = <<>>
    /\ key \in DeleteModeKeys
    /\ tpc = "render"
    /\ state.mode = MODE_SELECT

\* C26: a resize event and a timeout change nothing of the state (mode, cursor,
\* selection, confirming flag, message, list), at the confirmation prompt too,
\* which stays pending with its message; they make no call, change no file,
\* and the next thing the dashboard does is a render.
C26_ResizeChangesNothing ==
    [][NoKey =>
          /\ state' = state
          /\ calls' = <<>>
          /\ <<dir, inodes, fs>>' = <<dir, inodes, fs>>
          /\ tpc' = "render"]_vars

\* A resize event has come at the prompt for two sessions: the prompt is still
\* pending.
C26_Witness ==
    /\ key = "KEY_RESIZE"
    /\ tpc = "render"
    /\ state.confirming
    /\ state.mode = MODE_DELETE
    /\ state.message = DeletePrompt(2)

\* The confirm key is handled in DELETE mode with nothing selected.
EmptyConfirm ==
    /\ KeyPressed
    /\ key' \in EnterKeys
    /\ ~state.confirming
    /\ state.mode = MODE_DELETE
    /\ state.selected = {}

EmptyConfirmStep ==
    EmptyConfirm =>
        /\ state' = [state EXCEPT !.message = NoSessionsSelected]
        /\ ~state'.confirming
        /\ state'.mode = MODE_DELETE
        /\ state'.cursor = state.cursor
        /\ state'.selected = {}
        /\ calls' = <<>>

\* The prompt is up as the confirm key sets it.
PromptUp ==
    state.confirming =>
        /\ state.mode = MODE_DELETE
        /\ state.selected # {}
        /\ state.message = DeletePrompt(Cardinality(state.selected))

\* C31: whenever the confirming flag is set the mode is DELETE, the selection
\* is not empty and the message is the prompt stating the number of sessions
\* selected; the confirm key handled in DELETE mode with nothing selected does
\* not set the flag, sets the 'No sessions selected.' message and leaves mode,
\* cursor, selection and the rest of the state as they are.
C31_PromptMatchesSelection == []PromptUp /\ [][EmptyConfirmStep]_vars

\* The prompt is up for one session selected out of three, and a resize has
\* come since the confirm key.
C31_Witness ==
    /\ state.confirming
    /\ key = "KEY_RESIZE"
    /\ Len(state.sessions) = 3
    /\ Cardinality(state.selected) = 1
    /\ state.message = DeletePrompt(1)

\* The confirm key has been handled with nothing selected.
EmptyConfirmHandled ==
    /\ key \in EnterKeys
    /\ tpc = "render"
    /\ state.mode = MODE_DELETE
    /\ state.selected = {}
    /\ state.message = NoSessionsSelected

\* --------------------------------------- properties of delete_session_files
\* C1 (as claimed): whatever the project path, the session id and the tree,
\* nothing that was outside the data root when delete_session_files was called
\* is removed by any of its four steps.
C1_NothingOutsideRemoved ==
    \A loc \in Locs :
        (~IsPrefix(Root, loc) /\ fs0[loc].k # "none") => fs[loc].k # "none"

\* The same for step 3 alone: what the loop over the artifacts removes.
C1_SearchRemovesNothingOutside ==
    dpc = "loop" =>
        \A i \in 1..Len(deleted) :
            (\E j \in 1..Len(artifacts) : artifacts[j] = deleted[i] /\ j < anext)
                => IsPrefix(Root, deleted[i])

\* The call is atomic in the dashboard: the steps composed give the same tree.
DsfAgreesWithWhole ==
    dpc = "done" =>
        LET r == delete_session_files(fs0, dargs.project_path, dargs.session_id, refused)
        IN r.fs = fs /\ r.deleted = deleted

\* The removal the loop of step 3 makes for an artifact succeeds.
Removable(t, rf, path) ==
    IF IsDir(t, path) THEN CanRmtree(t, rf, path) ELSE CanUnlink(t, rf, path)

Listed(path) == \E i \in 1..Len(deleted) : deleted[i] = path

\* C13: a removal that fails does not stop delete_session_files: the list holds
\* only paths that were there at the call, are gone now and whose removal is
\* not refused, each once; and when it returns, whatever it was to remove and is
\* still there (the
\* primary file, the session directory, an artifact found under the root, the
\* project directory without .jsonl file) is something whose removal fails.
C13_FailuresDoNotStop ==
    /\ \A i \in 1..Len(deleted) :
          /\ At(fs0, EntryOf(fs0, deleted[i])).k # "none"
          /\ At(fs, EntryOf(fs, deleted[i])).k = "none"
          /\ EntryOf(fs0, deleted[i]) \notin refused
          /\ \A j \in 1..Len(deleted) : deleted[j] = deleted[i] => j = i
    /\ dpc = "done" =>
          /\ Exists(fs, DsfJsonlPath) => ~CanUnlink(fs, refused, DsfJsonlPath)
          /\ IsDir(fs, WithoutSuffix(DsfJsonlPath)) =>
                ~CanRmtree(fs, refused, WithoutSuffix(DsfJsonlPath))
          /\ \A j \in 1..Len(artifacts) :
                \/ Listed(artifacts[j])
                \/ At(fs, EntryOf(fs, artifacts[j])).k = "none"
                \/ ~UnderRoot(fs, artifacts[j])
                \/ ~Removable(fs, refused, artifacts[j])
          /\ (/\ IsDir(fs, ProjectDirOf(dargs.project_path))
              /\ RemainingJsonl(fs, ProjectDirOf(dargs.project_path)) = {})
                => ~CanRmtree(fs, refused, ProjectDirOf(dargs.project_path))

\* The call has returned; the removal of the primary file was refused and the
\* file is still there, and the session directory and an artifact, whose turn
\* came later, are on the list.
C13_Witness ==
    /\ dpc = "done"
    /\ refused = {DsfJsonlPath}
    /\ Exists(fs, DsfJsonlPath)
    /\ ~Listed(DsfJsonlPath)
    /\ Listed(WithoutSuffix(DsfJsonlPath))
    /\ Len(deleted) >= 2

\* One turn of the loop of step 3 on artifact number anext.
ArtifactTurn == dpc = "loop" /\ anext <= Len(artifacts) /\ anext' = anext + 1

ArtifactStep ==
    ArtifactTurn =>
        /\ ~UnderRoot(fs, artifacts[anext]) => (fs' = fs /\ deleted' = deleted)
        /\ deleted' # deleted =>
              /\ UnderRoot(fs, artifacts[anext])
              /\ deleted' = Append(deleted, artifacts[anext])
        /\ fs' # fs => deleted' # deleted

\* C27: in step 3 a candidate whose resolved path is not under the resolved
\* data root is passed over, the tree and the list left as they are; a
\* candidate that is removed and listed resolved under the root when it was
\* checked, and nothing is removed unlisted; the event log is no candidate,
\* whatever the session id, and is still there while the loop runs.
C27_OutsideCandidatesSkipped ==
    /\ [](dpc = "loop" =>
            /\ \A j \in 1..Len(artifacts) : artifacts[j] # Root \o <<HistoryName>>
            /\ fs[Root \o <<HistoryName>>] = fs0[Root \o <<HistoryName>>])
    /\ [][ArtifactStep]_vars

\* The loop has passed over the stray artifact of "a", a symlink leading
\* outside, which is still there, and has removed another candidate.
C27_Witness ==
    /\ dpc = "loop"
    /\ dargs.session_id = <<"a">>
    /\ anext > Len(artifacts)
    /\ \E j \in 1..Len(artifacts) :
          /\ artifacts[j] = TodosDir \o << <<"a", "-", "x">> >>
          /\ ~UnderRoot(fs, artifacts[j])
          /\ fs[artifacts[j]].k = "link"
          /\ ~Listed(artifacts[j])
    /\ \E j \in 1..Len(artifacts) : Listed(artifacts[j]) /\ artifacts[j] = deleted[Len(deleted)]

\* Step 4 of the call under way.
ProjectDirTurn == dpc = "loop" /\ anext > Len(artifacts) /\ dpc' = "done"

\* The slug of the project path is the name of a subdirectory of projects.
NamesSubdirectory(project_path) ==
    ProjectDirOf(project_path) = Append(ProjectsDir, project_path_to_slug(project_path))

\* Step 4 removes nothing while a .jsonl file remains in the project
\* directory, and nothing but that directory and what is under it.
KeepsWhatRemains ==
    ProjectDirTurn =>
        /\ RemainingJsonl(fs, ProjectDirOf(dargs.project_path)) # {} => fs' = fs
        /\ \A loc \in Locs :
              fs'[loc] # fs[loc] => IsPrefix(EntryOf(fs, ProjectDirOf(dargs.project_path)), loc)

\* Step 4 removes neither the projects directory nor the data root.
KeepsSharedDirectories ==
    ProjectDirTurn => (fs'[ProjectsDir] = fs[ProjectsDir] /\ fs'[Root] = fs[Root])

\* C28 (as claimed): for every project path, step 4 removes the project
\* directory only when no .jsonl file remains in it, removes nothing else, and
\* removes neither the shared projects directory nor the data root.
C28_OnlyOwnSubdirectory == [][KeepsWhatRemains /\ KeepsSharedDirectories]_vars

\* What holds for every project path: step 4 removes nothing while a detail
\* file remains in the directory it derives, and the shared directories are
\* kept when the slug names a subdirectory of projects.
C28_RemainingDetailKept ==
    [][/\ KeepsWhatRemains
       /\ NamesSubdirectory(dargs.project_path) => KeepsSharedDirectories]_vars

\* The session ids that have a detail file or a directory in the trees.
TreeIds == {<<"a">>, <<"a", "b">>, <<"b">>}

PrimaryOf(session_id) == get_session_jsonl_path(ProjP, session_id)

\* The detail file and the same-named directory of session y are as they were
\* at the call.
Intact(y) ==
    /\ fs[PrimaryOf(y)] = fs0[PrimaryOf(y)]
    /\ fs[WithoutSuffix(PrimaryOf(y))] = fs0[WithoutSuffix(PrimaryOf(y))]

\* C29 (as claimed): whatever sessions X and Y, Y other than X, the detail
\* file and the same-named directory of Y are after delete_session_files for X
\* what they were before, also when the id of Y contains that of X.
C29_OtherSessionsIntact ==
    dpc # "idle" => \A y \in TreeIds \ {dargs.session_id} : Intact(y)

\* What holds: the detail file of a session whose id does not contain the
\* deleted one is kept when the slug names a subdirectory of projects, and its
\* directory too unless step 4 has removed the project directory.
C29_UnrelatedDetailFileIntact ==
    (dpc # "idle" /\ NamesSubdirectory(dargs.project_path)) =>
        \A y \in TreeIds \ {dargs.session_id} :
            ~Contains(y, dargs.session_id) =>
                /\ fs[PrimaryOf(y)] = fs0[PrimaryOf(y)]
                /\ Intact(y) \/ Listed(ProjectDirOf(dargs.project_path))

\* ------------------------------------- properties of the callers of the engine
\* The step calls delete_session_files.
RemovalStep == \E i \in 1..Len(calls') : calls'[i].op = "delete_session_files"

\* The step calls delete_sessions_from_history.
RewriteStep == calls' # <<>> /\ calls'[1].op = "delete_sessions_from_history"

\* The log holds a line of one of these sessions.
HoldsLineOf(lines, S) ==
    \E i \in 1..Len(lines) : lines[i].kind = "obj" /\ IdentifiesDeleted(lines[i], S)

\* The locations of the tree that are artifacts of session s.
SessionArtifacts(s) ==
    {loc \in Locs :
        /\ IsPrefix(Root, loc)
        /\ \E n \in (Len(Root) + 1)..Len(loc) : Contains(loc[n], s)}

RewriteThenRemoval ==
    /\ RemovalStep =>
          /\ \/ cmd = "delete" /\ cpc = "rewritten"
                   /\ calls # <<>> /\ calls[1].op = "delete_sessions_from_history"
                   /\ calls'[1].ids = calls[1].ids
                   /\ History' = History
             \/ cmd = "tui" /\ RewriteStep
                   /\ \A i \in 2..Len(calls') :
                         /\ calls'[i].op # "delete_sessions_from_history"
                         /\ calls'[i].op = "delete_session_files" =>
                               calls'[i].ids \subseteq calls'[1].ids
          /\ \A i \in 1..Len(calls') :
                calls'[i].op = "delete_session_files" => ~HoldsLineOf(History', calls'[i].ids)
    /\ (RewriteStep /\ (tpc' \in {"exit1", "raised"} \/ cpc' \in {"exit1", "raised"})) =>
          /\ fs' = fs
          /\ ~RemovalStep
    /\ fs' # fs => RemovalStep

HistLines ==
    {Rec(<<"a">>, 600, <<"x">>, ProjP), Rec(<<"b">>, 1200, <<"y">>, ProjP),
     BlankLine, GarbageLine, NonObjectLine, OnlyIdLine, NoIdLine}

\* The sets of session ids passed to delete_sessions_from_history.
IdSets == {{<<"a">>}, {<<"b">>}, {<<"a">>, <<"b">>}}

HistInit ==
    /\ dir = [hist |-> 1, tmp |-> 0]
    /\ \E log \in LogsOf(HistLines) : inodes = <<log>>
    /\ LoadIdle
    /\ HistIdle
    /\ TreeIdle

\* delete_sessions_from_history(S) opens the log and runs the reading loop.
HistRead(S) ==
    /\ hpc = "idle"
    /\ dir.hist # 0
    /\ LET r == ReadKept(History, 1, S, <<>>, 0) IN
        /\ hpc' = IF r.outcome = "ok" THEN "read" ELSE "raised"
        /\ kept_lines' = r.kept_lines
        /\ removed_count' = r.removed_count
    /\ session_ids' = S
    /\ orig' = History
    /\ ncalls' = ncalls + 1
    /\ UNCHANGED <<fileVars, loadVars, wfd, hret, herr, prev, readerVars, nonDataVars>>

\* open(tmp_path, "w")
HistOpenTmp ==
    /\ hpc = "read"
    /\ LET o == OpenForWrite(dir, inodes, tmp_path) IN
        /\ dir' = o.dir
        /\ inodes' = o.inodes
        /\ wfd' = o.fd
    /\ hpc' = "writing"
    /\ UNCHANGED <<loadVars, session_ids, kept_lines, removed_count, hret, herr, orig,
                   ncalls, prev, readerVars, nonDataVars>>

\* tmp_file.writelines(kept_lines): the next line reaches the file.
HistWriteLine ==
    /\ hpc = "writing"
    /\ Len(inodes[wfd]) < Len(kept_lines)
    /\ inodes' = [inodes EXCEPT ![wfd] = Append(@, kept_lines[Len(@) + 1])]
    /\ UNCHANGED <<dir, loadVars, histVars, readerVars, nonDataVars>>

\* The with block closes the temporary file.
HistCloseTmp ==
    /\ hpc = "writing"
    /\ Len(inodes[wfd]) = Len(kept_lines)
    /\ hpc' = "written"
    /\ wfd' = 0
    /\ UNCHANGED <<fileVars, loadVars, session_ids, kept_lines, removed_count, hret, herr,
                   orig, ncalls, prev, readerVars, nonDataVars>>

\* tmp_path.rename(history_path); return removed_count
HistRename ==
    /\ hpc = "written"
    /\ dir' = Rename(dir, tmp_path, "hist")
    /\ hpc' = "returned"
    /\ hret' = <<removed_count>>
    /\ UNCHANGED <<inodes, loadVars, session_ids, kept_lines, removed_count, wfd, herr, orig,
                   ncalls, prev, readerVars, nonDataVars>>

\* The handler of a failed write taken as success: the count is returned.
HistWriteFailsIgnored(unlinked) ==
    /\ hpc \in {"read", "writing", "written"}
    /\ herr' = {CASE hpc = "read" -> "open" [] hpc = "writing" -> "write" [] OTHER -> "rename"}
    /\ hpc' = "returned"
    /\ hret' = <<removed_count>>
    /\ wfd' = 0
    /\ UNCHANGED <<fileVars, loadVars, session_ids, kept_lines, removed_count, orig, ncalls,
                   prev, readerVars, nonDataVars>>

\* open, writelines, close or rename raises OSError: the handler unlinks the
\* temporary file, an OSError of the unlink itself being swallowed, and exits
\* with status 1.
HistWriteFails(unlinked) ==
    /\ hpc \in {"read", "writing", "written"}
    /\ herr' = {CASE hpc = "read" -> "open" [] hpc = "writing" -> "write" [] OTHER -> "rename"}
                    \cup (IF unlinked THEN {} ELSE {"unlink"})
    /\ dir' = IF unlinked THEN Unlink(dir, tmp_path) ELSE dir
    /\ hpc' = "exit1"
    /\ wfd' = 0
    /\ UNCHANGED <<inodes, loadVars, session_ids, kept_lines, removed_count, hret, orig,
                   ncalls, prev, readerVars, nonDataVars>>

\* The process is killed between two steps of the call.
HistCrash ==
    /\ hpc \in {"read", "writing", "written"}
    /\ hpc' = "crashed"
    /\ wfd' = 0
    /\ UNCHANGED <<fileVars, loadVars, session_ids, kept_lines, removed_count, hret, herr,
                   orig, ncalls, prev, readerVars, nonDataVars>>

\* Another process opens the event log.
ReaderOpen ==
    /\ rdIno = 0
    /\ obs = <<>>
    /\ dir.hist # 0
    /\ rdIno' = dir.hist
    /\ UNCHANGED <<fileVars, loadVars, histVars, obs, nonDataVars>>

\* It reads the file it has opened.
ReaderRead ==
    /\ rdIno # 0
    /\ obs' = <<inodes[rdIno]>>
    /\ rdIno' = 0
    /\ UNCHANGED <<fileVars, loadVars, histVars, nonDataVars>>

HistNext ==
    \/ \E S \in IdSets : HistRead(S)
    \/ HistOpenTmp
    \/ HistWriteLine
    \/ HistCloseTmp
    \/ HistRename
    \/ \E unlinked \in BOOLEAN : HistWriteFails(unlinked)
    \/ HistCrash
    \/ ReaderOpen
    \/ ReaderRead

SpecHist == HistInit /\ [][HistNext]_vars

\* --------------------------- specification of the log rewrite, call after call
\* A caller runs delete_sessions_from_history(S) from beginning to end.
RewriteCall(S) ==
    /\ hpc \in {"idle", "returned", "exit1", "raised"}
    /\ ncalls < MaxCalls
    /\ dir.hist # 0
    /\ \E fault \in Faults(ReadKept(History, 1, S, <<>>, 0).kept_lines) :
          LET r == delete_sessions_from_history(dir, inodes, S, fault) IN
          /\ dir' = r.dir
          /\ inodes' = r.inodes
          /\ hpc' = r.outcome
          /\ hret' = r.ret
          /\ herr' = r.err
          /\ kept_lines' = r.kept_lines
          /\ removed_count' = r.removed_count
    /\ session_ids' = S
    /\ orig' = History
    /\ ncalls' = ncalls + 1
    /\ prev' = IF hpc = "returned" THEN <<session_ids>> ELSE <<>>
    /\ UNCHANGED <<loadVars, wfd, readerVars, nonDataVars>>

RewriteNext == \E S \in IdSets : RewriteCall(S)

SpecRewrite == HistInit /\ [][RewriteNext]_vars

\* ------------------------------------------------- properties of the log rewrite
\* The lines of a log that do not name a session of S, in their order.
RECURSIVE LinesNotOf(_, _)
LinesNotOf(lines, S) ==
    IF lines = <<>> THEN <<>>
    ELSE IF Head(lines).kind = "obj" /\ Head(lines).entry.sessionId # <<>>
            /\ Head(lines).entry.sessionId[1] \in S
         THEN LinesNotOf(Tail(lines), S)
         ELSE <<Head(lines)>> \o LinesNotOf(Tail(lines), S)

CompleteVersions == {orig, LinesNotOf(orig, session_ids)}

\* C2: from the start of the call on, whatever step it has reached and also
\* after a crash, the event-log path names a file holding the complete
\* original log (until the rename) or the complete filtered log (after it),
\* and a reader that opened the log, before or during the call, reads one of
\* the two.
C2_OldOrNewLog ==
    hpc # "idle" =>
        /\ dir.hist # 0
        /\ History \in CompleteVersions
        /\ hpc # "returned" => History = orig
        /\ hpc = "returned" => History = LinesNotOf(orig, session_ids)
        /\ rdIno # 0 => inodes[rdIno] \in CompleteVersions
        /\ obs # <<>> => obs[1] \in CompleteVersions

\* The call crashed with part of the retained lines in the temporary file, and
\* a reader has read the log.
C2_Witness ==
    /\ hpc = "crashed"
    /\ dir.tmp # 0
    /\ Len(inodes[dir.tmp]) > 0
    /\ Len(inodes[dir.tmp]) < Len(kept_lines)
    /\ removed_count > 0
    /\ obs = <<orig>>

\* C3: when open, write or rename of the temporary file fails, the call ends in
\* sys.exit(1) without a return value, the event-log path still names the
\* original file with its original lines, and the temporary file is gone
\* unless its unlink failed too.
C3_WriteFailureIsFatal ==
    herr # {} =>
        /\ hpc = "exit1"
        /\ hret = <<>>
        /\ dir.hist = 1
        /\ History = orig
        /\ "unlink" \notin herr => dir.tmp = 0

\* The rename failed after the retained lines were written, and the temporary
\* file was removed.
C3_Witness ==
    /\ hpc = "exit1"
    /\ herr = {"rename"}
    /\ removed_count > 0
    /\ kept_lines # <<>>
    /\ dir.tmp = 0

\* What C4 says of a call that returned: the log, the count, and the effect of
\* the same call made again.
C4_Returned ==
    /\ hpc = "returned"
    /\ History = LinesNotOf(orig, session_ids)
    /\ hret = <<Len(orig) - Len(History)>>
    /\ prev = <<session_ids>> => (hret = <<0>> /\ History = orig)

\* C4 (as claimed): for every log and every set S, a call that meets no I/O
\* failure leaves exactly the lines that do not name a session of S, in their
\* order, and returns the number of dropped lines; made again with the same S
\* it changes nothing and returns 0.
C4_ExactFilter == (ncalls > 0 /\ herr = {}) => C4_Returned

\* The same for the logs that hold no non-object JSON value.
C4_ExactFilterOfObjectLogs ==
    (ncalls > 0 /\ herr = {} /\ \A i \in 1..Len(orig) : orig[i].kind # "nonobj") => C4_Returned

\* A second call with the same set, after a first one that dropped lines.
C4_SecondCall ==
    /\ ncalls = 2
    /\ hpc = "returned"
    /\ prev = <<session_ids>>
    /\ Len(History) = 2

\* ------------------------------------------------- properties of the aggregator
\* A line that load_sessions aggregates.
Contributes(line) == line.kind = "obj" /\ AllFields(line.entry)

\* The positions in lines of the records aggregated into session sid.
RecordsOf(lines, sid) ==
    {i \in 1..Len(lines) : Contributes(lines[i]) /\ lines[i].entry.sessionId[1] = sid}

ContributingIds(lines) ==
    {lines[i].entry.sessionId[1] : i \in {j \in 1..Len(lines) : Contributes(lines[j])}}

TsAt(lines, i) == lines[i].entry.timestamp[1]

MinOf(S) == CHOOSE m \in S : \A x \in S : m <= x
MaxOf(S) == CHOOSE m \in S : \A x \in S : m >= x

\* Place of record i among the records of its session, by timestamp and, for
\* equal timestamps, by position in the log.
Rank(lines, sid, i) ==
    1 + Cardinality({j \in RecordsOf(lines, sid) :
                        \/ TsAt(lines, j) < TsAt(lines, i)
                        \/ (TsAt(lines, j) = TsAt(lines, i) /\ j < i)})

\* The log without blank lines, unparseable lines and non-object JSON values.
RECURSIVE WithoutBadLines(_)
WithoutBadLines(lines) ==
    IF lines = <<>> THEN <<>>
    ELSE IF Head(lines).kind \in {"blank", "garbage", "nonobj"}
         THEN WithoutBadLines(Tail(lines))
         ELSE <<Head(lines)>> \o WithoutBadLines(Tail(lines))

\* C8 (as claimed): whatever blank, unparseable or non-object lines the log
\* holds, load_sessions finishes normally and returns the sessions of the log
\* with those lines removed.
C8_BadLinesSkipped ==
    lpc = "done" =>
        /\ loaded.outcome = "ok"
        /\ loaded.sessions = load_sessions(WithoutBadLines(History)).sessions

LinePermutations(n) == {f \in [1..n -> 1..n] : \A i, j \in 1..n : f[i] = f[j] => i = j}

\* What C9 says of a session: its id, time range and commands.
SessionView(ss) ==
    {[session_id |-> ss[k].session_id, created_at |-> ss[k].created_at,
      last_active_at |-> ss[k].last_active_at, commands |-> ss[k].commands,
      latest_command |-> ss[k].latest_command] : k \in 1..Len(ss)}

\* One Session per contributing id, with the minimum and maximum timestamps.
C9_IdsAndRange ==
    LET ss == loaded.sessions IN
    /\ Len(ss) = Cardinality(ContributingIds(History))
    /\ {ss[k].session_id : k \in 1..Len(ss)} = ContributingIds(History)
    /\ \A k \in 1..Len(ss) :
          LET R == RecordsOf(History, ss[k].session_id)
              T == {TsAt(History, i) : i \in R}
          IN /\ ss[k].created_at = ms_to_datetime(MinOf(T))
             /\ ss[k].last_active_at = ms_to_datetime(MaxOf(T))
             /\ ~DtLess(ss[k].last_active_at, ss[k].created_at)
             /\ Len(ss[k].commands) = Cardinality(R)
             /\ ss[k].commands # <<>>

\* C9 (as claimed): one Session per contributing id; created_at and
\* last_active_at are the minimum and maximum timestamps; commands and
\* latest_command are those of the records in timestamp order, whatever the
\* order of the lines in the log.
C9_OrderIndependent ==
    (lpc = "done" /\ loaded.outcome = "ok") =>
        /\ C9_IdsAndRange
        /\ \A p \in LinePermutations(Len(History)) :
              SessionView(load_sessions([i \in 1..Len(History) |-> History[p[i]]]).sessions)
                  = SessionView(loaded.sessions)

\* C9 (amended): one Session per contributing id; created_at and
\* last_active_at are the minimum and maximum timestamps; commands holds the
\* displays in ascending timestamp order, records of equal timestamp in log
\* order, and latest_command is the last of them.
C9_Aggregation ==
    (lpc = "done" /\ loaded.outcome = "ok") =>
        /\ C9_IdsAndRange
        /\ \A k \in 1..Len(loaded.sessions) :
              LET s == loaded.sessions[k]
                  R == RecordsOf(History, s.session_id)
              IN \A i \in R :
                    /\ s.commands[Rank(History, s.session_id, i)] = History[i].entry.display[1]
                    /\ Rank(History, s.session_id, i) = Cardinality(R)
                          => s.latest_command = History[i].entry.display[1]

\* A session of three records whose lines are not in timestamp order.
C9_Witness ==
    /\ lpc = "done"
    /\ loaded.outcome = "ok"
    /\ Len(History) = 3
    /\ \E k \in 1..Len(loaded.sessions) :
          /\ Len(loaded.sessions[k].commands) = 3
          /\ TsAt(History, 1) > TsAt(History, 2)
          /\ History[1].entry.display # History[2].entry.display

\* Position of the first record of session sid in the log.
FirstSeen(lines, sid) == MinOf(RecordsOf(lines, sid))

\* C10: the list is ordered by last_active_at descending, and sessions of equal
\* last_active_at are in the order in which their ids first occur in the log.
C10_SortedDescending ==
    (lpc = "done" /\ loaded.outcome = "ok") =>
        LET ss == loaded.sessions IN
        \A i, j \in 1..Len(ss) :
            i < j =>
                /\ ~DtLess(ss[i].last_active_at, ss[j].last_active_at)
                /\ ss[i].last_active_at = ss[j].last_active_at
                      => FirstSeen(History, ss[i].session_id) < FirstSeen(History, ss[j].session_id)

\* Three sessions, two of them with the same last_active_at, the oldest first
\* in the log.
C10_Witness ==
    /\ lpc = "done"
    /\ loaded.outcome = "ok"
    /\ Len(loaded.sessions) = 3
    /\ loaded.sessions[1].last_active_at = loaded.sessions[2].last_active_at
    /\ loaded.sessions[2].last_active_at # loaded.sessions[3].last_active_at
    /\ loaded.sessions[3].session_id = History[1].entry.sessionId[1]

\* C22 (as claimed): the project_path of a Session is the project of the first
\* record of its id in the log, also when a later line carries an earlier
\* timestamp and another project.
C22_ProjectFirstSeen ==
    (lpc = "done" /\ loaded.outcome = "ok") =>
        \A k \in 1..Len(loaded.sessions) :
            loaded.sessions[k].project_path
                = History[FirstSeen(History, loaded.sessions[k].session_id)].entry.project[1]

\* What holds of it: the project_path is the project of the record of the
\* earliest timestamp, and of the first in the log among several such.
C22_ProjectOfEarliest ==
    (lpc = "done" /\ loaded.outcome = "ok") =>
        \A k \in 1..Len(loaded.sessions) :
            \A i \in RecordsOf(History, loaded.sessions[k].session_id) :
                Rank(History, loaded.sessions[k].session_id, i) = 1 =>
                    loaded.sessions[k].project_path = History[i].entry.project[1]

\* The record carries the four fields, whatever their values.
HasAllFields(line) ==
    /\ line.kind = "obj"
    /\ line.entry.sessionId # <<>>
    /\ line.entry.timestamp # <<>>
    /\ line.entry.display # <<>>
    /\ line.entry.project # <<>>

CarryingAll(lines, sid) ==
    {i \in 1..Len(lines) : HasAllFields(lines[i]) /\ lines[i].entry.sessionId[1] = sid}

\* C23 (as claimed): the load not aborting, a record is aggregated into its
\* session if and only if it carries sessionId, timestamp, display and project:
\* the sessions are those of the records carrying all four, a timestamp of 0 and
\* an empty display included, and each holds one command per such record.
C23_AllFourFieldsContribute ==
    (lpc = "done" /\ loaded.outcome = "ok") =>
        /\ {loaded.sessions[k].session_id : k \in 1..Len(loaded.sessions)}
              = {History[i].entry.sessionId[1] :
                    i \in {j \in 1..Len(History) : HasAllFields(History[j])}}
        /\ \A k \in 1..Len(loaded.sessions) :
              Len(loaded.sessions[k].commands)
                  = Cardinality(CarryingAll(History, loaded.sessions[k].session_id))

\* What holds of it: a record lacking a field is skipped and the load goes on,
\* and a record is aggregated if and only if its four fields are there and
\* truthy: not 0, not the empty string.
C23_TruthyFieldsContribute ==
    (lpc = "done" /\ \A i \in 1..Len(History) : History[i].kind # "nonobj") =>
        /\ loaded.outcome = "ok"
        /\ {loaded.sessions[k].session_id : k \in 1..Len(loaded.sessions)}
              = ContributingIds(History)
        /\ \A k \in 1..Len(loaded.sessions) :
              Len(loaded.sessions[k].commands)
                  = Cardinality(RecordsOf(History, loaded.sessions[k].session_id))

====
